---- MODULE Spec2Model ----
(***************************************************************************)
(* Model of the influx-metrics-visualiser client.                          *)
(*                                                                         *)
(*  - the polling controller of App (fetchMetrics, its retry loop, the     *)
(*    polling useEffect with its interval timer, handleManualParse) and    *)
(*    the snapshot history it feeds;                                       *)
(*  - the exposition parser (parsePrometheusMetrics in App,                *)
(*    parsePrometheusMetricsWithMetadata in formatters.js), computed on    *)
(*    sequences of one-character strings.                                  *)
(*                                                                         *)
(* React state updates and the effects they trigger are taken as one step  *)
(* with the handler that issues them.  Timers and network completions      *)
(* fire in any order.                                                      *)
(***************************************************************************)
EXTENDS Integers, Sequences, FiniteSets, TLC

\* ------------------------------------------------------------------ bounds
\* Largest wall-clock reading (Date.now()) explored.
MaxClock == 1
\* fetchMetrics cycles that may exist at once (the program sets no limit).
MaxCycles == 2
\* History length explored by the controller and parser specifications.
MaxHistory == 1

\* The requests to the proxy that are followed.
MaxRequests == 1
\* Widgets on the dashboard.
MaxWidgets == 4

\* ------------------------------------------------------- program constants
HistoryCap == 60
maxRetries == 5
BackoffBaseMs == 100

VARIABLES
    polling,        \* useState(false): live polling enabled
    interval,       \* the polling effect's setInterval is armed
    metricsHistory, \* useState([]): sequence of [timestamp, metrics]
    error,          \* useState(null): <<>> for null, else <<lastError, attempts>>
    errorType,      \* useState(null)
    cycles,         \* the fetchMetrics invocations that have not returned
    now,            \* the wall clock read by Date.now()
    rawInput,       \* useState(''): the manual-input textarea
    metricsText,    \* ExplorerDashboard's metricsText prop
    explorer,       \* ExplorerDashboard's useMemo value {metrics, metadata}
    discovered,     \* useState({histograms: [], summaries: [], counters: []})
    widgets,        \* ExplorerDashboard's useState: sequence of widgets
    layouts,        \* ExplorerDashboard's useState: the lg, md and sm items
    proxy           \* the server's state for one /api/proxy request

vars == <<polling, interval, metricsHistory, error, errorType, cycles, now,
          rawInput, metricsText, explorer, discovered, widgets, layouts, proxy>>

\* The state outside of App.
aside == <<widgets, layouts, proxy>>

Null == "null"
NoError == <<>>
Slots == 1..MaxCycles

\* ------------------------------------------------------------- characters
\* Text is a sequence of one-character strings.
QUOTE == "\""
BSLASH == "\\"
LF == "\n"
CR == "\r"
LowerSeq == <<"a","b","c","d","e","f","g","h","i","j","k","l","m",
              "n","o","p","q","r","s","t","u","v","w","x","y","z">>
UpperSeq == <<"A","B","C","D","E","F","G","H","I","J","K","L","M",
              "N","O","P","Q","R","S","T","U","V","W","X","Y","Z">>
Lower == {LowerSeq[k] : k \in 1..26}
Upper == {UpperSeq[k] : k \in 1..26}
Digit == {"0","1","2","3","4","5","6","7","8","9"}
\* [a-zA-Z_:] and [a-zA-Z0-9_:]
NameStart == Lower \cup Upper \cup {"_", ":"}
NameCont == NameStart \cup Digit
\* [a-zA-Z_] and [a-zA-Z0-9_]
KeyStart == Lower \cup Upper \cup {"_"}
KeyCont == KeyStart \cup Digit
\* \s and the characters String.prototype.trim removes
WhiteSpace == {" ", "\t", CR, LF}
\* the characters "." does not match
LineTerminators == {LF, CR}
\* [0-9eE.+\-NaNInf]
ValueChar == Digit \cup {"e", "E", ".", "+", "-", "N", "a", "I", "n", "f"}

toLowerChar(c) ==
    IF c \in Upper THEN LowerSeq[CHOOSE k \in 1..26 : UpperSeq[k] = c] ELSE c

toLowerCase(s) == [k \in 1..Len(s) |-> toLowerChar(s[k])]

\* The first index >= p of s whose character is not in cls; Len(s)+1 when
\* there is none: where a greedy cls* started at p stops.
RECURSIVE RunEnd(_, _, _)
RunEnd(s, p, cls) ==
    IF p <= Len(s) /\ s[p] \in cls THEN RunEnd(s, p + 1, cls) ELSE p

\* String.prototype.indexOf for one character, 1-based; 0 when absent.
RECURSIVE IndexOf(_, _, _)
IndexOf(s, ch, p) ==
    IF p > Len(s) THEN 0
    ELSE IF s[p] = ch THEN p
    ELSE IndexOf(s, ch, p + 1)

\* String.prototype.split on a one-character separator.
RECURSIVE split(_, _)
split(text, sep) ==
    LET i == IndexOf(text, sep, 1)
    IN IF i = 0 THEN <<text>>
       ELSE <<SubSeq(text, 1, i - 1)>> \o split(SubSeq(text, i + 1, Len(text)), sep)

RECURSIVE TrimEnd(_)
TrimEnd(s) ==
    IF Len(s) > 0 /\ s[Len(s)] \in WhiteSpace THEN TrimEnd(SubSeq(s, 1, Len(s) - 1))
    ELSE s

\* String.prototype.trim
trim(s) == TrimEnd(SubSeq(s, RunEnd(s, 1, WhiteSpace), Len(s)))

\* String.prototype.replaceAll with a string pattern: left to right, without
\* rescanning what was replaced.
RECURSIVE replaceAll(_, _, _)
replaceAll(s, pat, rep) ==
    IF Len(s) < Len(pat) THEN s
    ELSE IF SubSeq(s, 1, Len(pat)) = pat
         THEN rep \o replaceAll(SubSeq(s, Len(pat) + 1, Len(s)), pat, rep)
         ELSE <<s[1]>> \o replaceAll(Tail(s), pat, rep)

\* ---------------------------------------------------------------- numbers
\* A sample value is m * 10^e with m not divisible by 10 (0 is m = 0, e = 0),
\* or an infinity, or NaN.  Literals are taken to lie within the range and
\* precision of a double.
Num(m, e) == [kind |-> "num", m |-> m, e |-> e]
Infinity == [kind |-> "inf", m |-> 1, e |-> 0]
NegInfinity == [kind |-> "inf", m |-> -1, e |-> 0]
NaN == [kind |-> "nan", m |-> 0, e |-> 0]

RECURSIVE Normalize(_, _)
Normalize(m, e) ==
    IF m = 0 THEN Num(0, 0)
    ELSE IF m % 10 = 0 THEN Normalize(m \div 10, e + 1)
    ELSE Num(m, e)

DigitValue(c) == CHOOSE d \in 0..9 : <<"0","1","2","3","4","5","6","7","8","9">>[d + 1] = c

RECURSIVE DigitsToInt(_)
DigitsToInt(ds) ==
    IF Len(ds) = 0 THEN 0
    ELSE 10 * DigitsToInt(SubSeq(ds, 1, Len(ds) - 1)) + DigitValue(ds[Len(ds)])

\* Number.parseFloat on a token of value characters: the longest prefix that
\* is a decimal literal (sign, digits, fraction, complete exponent), NaN when
\* there is no digit.
parseFloat(s) ==
    LET signed == Len(s) >= 1 /\ s[1] \in {"+", "-"}
        sign == IF signed /\ s[1] = "-" THEN -1 ELSE 1
        p0 == IF signed THEN 2 ELSE 1
        p1 == RunEnd(s, p0, Digit)
        hasDot == p1 <= Len(s) /\ s[p1] = "."
        p2 == IF hasDot THEN RunEnd(s, p1 + 1, Digit) ELSE p1
        intDigits == SubSeq(s, p0, p1 - 1)
        fracDigits == IF hasDot THEN SubSeq(s, p1 + 1, p2 - 1) ELSE <<>>
        hasE == p2 <= Len(s) /\ s[p2] \in {"e", "E"}
        esigned == hasE /\ p2 + 1 <= Len(s) /\ s[p2 + 1] \in {"+", "-"}
        q1 == IF esigned THEN p2 + 2 ELSE p2 + 1
        expDigits == IF hasE THEN SubSeq(s, q1, RunEnd(s, q1, Digit) - 1) ELSE <<>>
        expSign == IF esigned /\ s[p2 + 1] = "-" THEN -1 ELSE 1
    IN IF Len(intDigits) + Len(fracDigits) = 0 THEN NaN
       ELSE Normalize(sign * DigitsToInt(intDigits \o fracDigits),
                      expSign * DigitsToInt(expDigits) - Len(fracDigits))

\* Mutant of parseValue: only the infinities are replaced, NaN is kept.
parseValue_keepNaN(valueStr) ==
    LET value == parseFloat(valueStr)
    IN IF value = NaN
       THEN IF valueStr = <<"+","I","n","f">> \/ valueStr = <<"I","n","f">> THEN Infinity
            ELSE IF valueStr = <<"-","I","n","f">> THEN NegInfinity
            ELSE NaN
       ELSE value

\* The value of a data line: parseFloat, then the fallback for NaN.
parseValue(valueStr) ==
    LET value == parseFloat(valueStr)
    IN IF value = NaN
       THEN IF valueStr = <<"+","I","n","f">> \/ valueStr = <<"I","n","f">> THEN Infinity
            ELSE IF valueStr = <<"-","I","n","f">> THEN NegInfinity
            ELSE Num(0, 0)
       ELSE value

\* Number.prototype.toString for a finite value within 1e-7 .. 1e21, in
\* decimal notation without exponent.
RECURSIVE IntToDigits(_)
IntToDigits(n) ==
    IF n < 10 THEN <<(<<"0","1","2","3","4","5","6","7","8","9">>)[n + 1]>>
    ELSE Append(IntToDigits(n \div 10), (<<"0","1","2","3","4","5","6","7","8","9">>)[(n % 10) + 1])

Zeros(n) == [k \in 1..n |-> "0"]

numberToString(v) ==
    IF v.kind = "nan" THEN <<"N","a","N">>
    ELSE IF v.kind = "inf"
         THEN (IF v.m < 0 THEN <<"-">> ELSE <<>>) \o <<"I","n","f","i","n","i","t","y">>
    ELSE LET neg == v.m < 0
             ds == IntToDigits(IF neg THEN -v.m ELSE v.m)
             point == Len(ds) + v.e
             body == IF v.e >= 0 THEN ds \o Zeros(v.e)
                     ELSE IF point > 0
                          THEN SubSeq(ds, 1, point) \o <<".">> \o SubSeq(ds, point + 1, Len(ds))
                     ELSE <<"0", ".">> \o Zeros(-point) \o ds
         IN (IF neg THEN <<"-">> ELSE <<>>) \o body

\* Arithmetic on finite values is exact: a quantity is a fraction n/d in
\* lowest terms with d > 0.
RECURSIVE Gcd(_, _)
Gcd(a, b) == IF b = 0 THEN a ELSE Gcd(b, a % b)

Abs(n) == IF n < 0 THEN -n ELSE n

Q(n, d) ==
    LET g == Gcd(Abs(n), Abs(d))
        sgn == IF d < 0 THEN -1 ELSE 1
    IN [n |-> sgn * (n \div g), d |-> sgn * (d \div g)]

Zero == [n |-> 0, d |-> 1]

\* The quantity of a finite sample value m * 10^e.
quantity(v) == IF v.e >= 0 THEN Q(v.m * 10^v.e, 1) ELSE Q(v.m, 10^(-v.e))

plus(a, b) == Q(a.n * b.d + b.n * a.d, a.d * b.d)
minus(a, b) == Q(a.n * b.d - b.n * a.d, a.d * b.d)
over(a, b) == Q(a.n * b.d, a.d * b.n)
less(a, b) == a.n * b.d < b.n * a.d
max0(a) == IF a.n < 0 THEN Zero ELSE a

\* a < b for numbers that may be infinite (the comparator a - b of the sorts).
numberLess(a, b) ==
    IF a.kind = "inf" THEN a.m < 0 /\ ~(b.kind = "inf" /\ b.m < 0)
    ELSE IF b.kind = "inf" THEN b.m > 0
    ELSE less(quantity(a), quantity(b))

\* ----------------------------------------------------------- data lines
NoMatch == [ok |-> FALSE, name |-> <<>>, labelStr |-> <<>>, valueStr |-> <<>>]

\* trimmed.match(dataRegex): name, optional {label block} up to the first
\* "}", whitespace, value token, optional whitespace and digits, end of line.
matchDataRegex(t) ==
    LET n1 == IF Len(t) >= 1 /\ t[1] \in NameStart THEN RunEnd(t, 2, NameCont) ELSE 1
        hasBlock == n1 <= Len(t) /\ t[n1] = "{"
        close == IF hasBlock THEN IndexOf(t, "}", n1 + 1) ELSE 0
        afterBlock == IF hasBlock THEN close + 1 ELSE n1
        v1 == RunEnd(t, afterBlock, WhiteSpace)
        v2 == RunEnd(t, v1, ValueChar)
        t1 == RunEnd(t, v2, WhiteSpace)
        t2 == RunEnd(t, t1, Digit)
    IN IF n1 = 1 \/ (hasBlock /\ close = 0) \/ v1 = afterBlock \/ v2 = v1 THEN NoMatch
       ELSE IF v2 = Len(t) + 1 \/ (t1 > v2 /\ t2 > t1 /\ t2 = Len(t) + 1)
            THEN [ok |-> TRUE,
                  name |-> SubSeq(t, 1, n1 - 1),
                  labelStr |-> IF hasBlock THEN SubSeq(t, n1 + 1, close - 1) ELSE <<>>,
                  valueStr |-> SubSeq(t, v1, v2 - 1)]
            ELSE NoMatch

\* (?:[^"\\]|\\.)*" from p: the index of the closing quote, 0 when the body
\* does not end in a quote.
RECURSIVE bodyEnd(_, _)
bodyEnd(s, p) ==
    IF p > Len(s) THEN 0
    ELSE IF s[p] = QUOTE THEN p
    ELSE IF s[p] = BSLASH
         THEN IF p + 1 <= Len(s) /\ s[p + 1] \notin LineTerminators
              THEN bodyEnd(s, p + 2) ELSE 0
    ELSE bodyEnd(s, p + 1)

\* labelRegex anchored at i: key="body"
matchLabelAt(s, i) ==
    LET k1 == IF s[i] \in KeyStart THEN RunEnd(s, i + 1, KeyCont) ELSE i
        opens == k1 > i /\ k1 + 1 <= Len(s) /\ s[k1] = "=" /\ s[k1 + 1] = QUOTE
        close == IF opens THEN bodyEnd(s, k1 + 2) ELSE 0
    IN IF close = 0 THEN [ok |-> FALSE, key |-> <<>>, raw |-> <<>>, lastIndex |-> 0]
       ELSE [ok |-> TRUE, key |-> SubSeq(s, i, k1 - 1),
             raw |-> SubSeq(s, k1 + 2, close - 1), lastIndex |-> close + 1]

\* labelRegex.exec from lastIndex p: the leftmost start of a match, 0 if none.
RECURSIVE labelSearch(_, _)
labelSearch(s, p) ==
    IF p > Len(s) THEN 0
    ELSE IF matchLabelAt(s, p).ok THEN p
    ELSE labelSearch(s, p + 1)

\* \" -> ", then \\ -> \, then \n -> newline, one replaceAll after the other.
unescapeLabelValue(raw) ==
    replaceAll(replaceAll(replaceAll(raw, <<BSLASH, QUOTE>>, <<QUOTE>>),
                          <<BSLASH, BSLASH>>, <<BSLASH>>),
               <<BSLASH, "n">>, <<LF>>)

EmptyLabels == [k \in {} |-> <<>>]
ProtoKey == <<"_", "_", "p", "r", "o", "t", "o", "_", "_">>

\* labels[k] = v on a plain object (assigning a string to __proto__ is ignored).
setLabel(labels, k, v) ==
    IF k = ProtoKey THEN labels
    ELSE [x \in DOMAIN labels \cup {k} |-> IF x = k THEN v ELSE labels[x]]

\* The while loop over labelRegex.exec(labelStr).
RECURSIVE parseLabels(_, _, _)
parseLabels(labelStr, p, labels) ==
    LET i == labelSearch(labelStr, p)
    IN IF i = 0 THEN labels
       ELSE LET lm == matchLabelAt(labelStr, i)
            IN parseLabels(labelStr, lm.lastIndex,
                           setLabel(labels, lm.key, unescapeLabelValue(lm.raw)))

\* metrics is a Map: a sequence of [name, samples] in insertion order.
hasMetric(metrics, name) == \E j \in 1..Len(metrics) : metrics[j].name = name

getMetric(metrics, name) ==
    IF hasMetric(metrics, name)
    THEN metrics[CHOOSE j \in 1..Len(metrics) : metrics[j].name = name].samples
    ELSE <<>>

\* Mutant of pushSample: the new sample is put before the earlier ones.
pushSample_prepend(metrics, name, sample) ==
    IF hasMetric(metrics, name)
    THEN [j \in 1..Len(metrics) |->
            IF metrics[j].name = name
            THEN [metrics[j] EXCEPT !.samples = <<sample>> \o @]
            ELSE metrics[j]]
    ELSE Append(metrics, [name |-> name, samples |-> <<sample>>])

\* if (!metrics.has(name)) metrics.set(name, []); metrics.get(name).push(sample)
pushSample(metrics, name, sample) ==
    IF hasMetric(metrics, name)
    THEN [j \in 1..Len(metrics) |->
            IF metrics[j].name = name
            THEN [metrics[j] EXCEPT !.samples = Append(@, sample)]
            ELSE metrics[j]]
    ELSE Append(metrics, [name |-> name, samples |-> <<sample>>])

\* Mutant of parseDataLine: a line that does not match empties the map.
parseDataLine_resetOnNoMatch(metrics, trimmed) ==
    LET dm == matchDataRegex(trimmed)
    IN IF dm.ok
       THEN pushSample(metrics, dm.name,
                       [labels |-> parseLabels(dm.labelStr, 1, EmptyLabels),
                        value |-> parseValue(dm.valueStr)])
       ELSE <<>>

\* A data line that does not match leaves the map as it is.
parseDataLine(metrics, trimmed) ==
    LET dm == matchDataRegex(trimmed)
    IN IF dm.ok
       THEN pushSample(metrics, dm.name,
                       [labels |-> parseLabels(dm.labelStr, 1, EmptyLabels),
                        value |-> parseValue(dm.valueStr)])
       ELSE metrics

\* ---------------------------------------------- parsePrometheusMetrics
\* One iteration of App's loop: blank lines and every "#" line are skipped.
appLineStep(metrics, line) ==
    LET trimmed == trim(line)
    IN IF trimmed = <<>> \/ trimmed[1] = "#" THEN metrics
       ELSE parseDataLine(metrics, trimmed)

RECURSIVE appLines(_, _, _)
appLines(lines, k, metrics) ==
    IF k > Len(lines) THEN metrics
    ELSE appLines(lines, k + 1, appLineStep(metrics, lines[k]))

parsePrometheusMetrics(text) == appLines(split(text, LF), 1, <<>>)

\* --------------------------------- parsePrometheusMetricsWithMetadata
\* metadata is a Map: a sequence of [name, help, type] in insertion order;
\* help is text, type one of the five type words.
TypeWords == [counter |-> <<"c","o","u","n","t","e","r">>,
              gauge |-> <<"g","a","u","g","e">>,
              histogram |-> <<"h","i","s","t","o","g","r","a","m">>,
              summary |-> <<"s","u","m","m","a","r","y">>,
              untyped |-> <<"u","n","t","y","p","e","d">>]

\* The common head of helpRegex and typeRegex: "#", \s*, the keyword, \s+, a
\* metric name, \s+; keyword compared as written or (flag i) in lower case.
\* rest is the index where the last group starts, 0 when the head fails.
matchDirective(t, keyword, ignoreCase) ==
    LET fold(x) == IF ignoreCase THEN toLowerCase(x) ELSE x
        k0 == RunEnd(t, 2, WhiteSpace)
        k1 == k0 + Len(keyword)
        n0 == RunEnd(t, k1, WhiteSpace)
        n1 == IF n0 <= Len(t) /\ t[n0] \in NameStart THEN RunEnd(t, n0 + 1, NameCont) ELSE n0
        r0 == RunEnd(t, n1, WhiteSpace)
        ok == /\ Len(t) >= 1 /\ t[1] = "#"
              /\ k1 - 1 <= Len(t)
              /\ fold(SubSeq(t, k0, k1 - 1)) = fold(keyword)
              /\ n0 > k1 /\ n1 > n0 /\ r0 > n1
    IN IF ok THEN [name |-> SubSeq(t, n0, n1 - 1), rest |-> r0]
       ELSE [name |-> <<>>, rest |-> 0]

\* trimmed.match(helpRegex): the help text is (.*) to the end of the line.
matchHelpRegex(t) ==
    LET h == matchDirective(t, <<"H","E","L","P">>, FALSE)
        help == SubSeq(t, h.rest, Len(t))
    IN IF h.rest # 0 /\ \A k \in 1..Len(help) : help[k] \notin LineTerminators
       THEN [ok |-> TRUE, name |-> h.name, help |-> help]
       ELSE [ok |-> FALSE, name |-> <<>>, help |-> <<>>]

\* trimmed.match(typeRegex), flag i: the line ends in one of the type words.
matchTypeRegex(t) ==
    LET h == matchDirective(t, <<"T","Y","P","E">>, TRUE)
        word == toLowerCase(SubSeq(t, h.rest, Len(t)))
    IN IF h.rest # 0 /\ \E ty \in DOMAIN TypeWords : TypeWords[ty] = word
       THEN [ok |-> TRUE, name |-> h.name,
             type |-> CHOOSE ty \in DOMAIN TypeWords : TypeWords[ty] = word]
       ELSE [ok |-> FALSE, name |-> <<>>, type |-> "untyped"]

hasMeta(metadata, name) == \E j \in 1..Len(metadata) : metadata[j].name = name

\* if (!metadata.has(name)) metadata.set(name, { help: '', type: 'untyped' })
ensureMeta(metadata, name) ==
    IF hasMeta(metadata, name) THEN metadata
    ELSE Append(metadata, [name |-> name, help |-> <<>>, type |-> "untyped"])

setHelp(metadata, name, help) ==
    LET md == ensureMeta(metadata, name)
    IN [j \in 1..Len(md) |-> IF md[j].name = name THEN [md[j] EXCEPT !.help = help] ELSE md[j]]

setType(metadata, name, type) ==
    LET md == ensureMeta(metadata, name)
    IN [j \in 1..Len(md) |-> IF md[j].name = name THEN [md[j] EXCEPT !.type = type] ELSE md[j]]

\* One iteration of the loop: blank, HELP, TYPE, other comment, data line.
metaLineStep(acc, line) ==
    LET trimmed == trim(line)
        helpMatch == matchHelpRegex(trimmed)
        typeMatch == matchTypeRegex(trimmed)
    IN IF trimmed = <<>> THEN acc
       ELSE IF helpMatch.ok
            THEN [acc EXCEPT !.metadata = setHelp(@, helpMatch.name, helpMatch.help)]
       ELSE IF typeMatch.ok
            THEN [acc EXCEPT !.metadata = setType(@, typeMatch.name, typeMatch.type)]
       ELSE IF trimmed[1] = "#" THEN acc
       ELSE [acc EXCEPT !.metrics = parseDataLine(@, trimmed)]

RECURSIVE metaLines(_, _, _)
metaLines(lines, k, acc) ==
    IF k > Len(lines) THEN acc
    ELSE metaLines(lines, k + 1, metaLineStep(acc, lines[k]))

EmptyParse == [metrics |-> <<>>, metadata |-> <<>>]

parsePrometheusMetricsWithMetadata(text) == metaLines(split(text, LF), 1, EmptyParse)

\* ExplorerDashboard's useMemo over [metricsText].
explorerMemo(text) ==
    IF text = <<>> THEN EmptyParse ELSE parsePrometheusMetricsWithMetadata(text)

\* ------------------------------------------------- distribution engine
\* A JavaScript object used as a dictionary: a sequence of [key, val] in the
\* order Object.keys gives, integer-like keys ascending first, the other keys
\* in insertion order (integer-like: a canonical decimal of up to 9 digits).
isArrayIndex(k) ==
    /\ Len(k) \in 1..9
    /\ \A j \in 1..Len(k) : k[j] \in Digit
    /\ (k[1] = "0" => Len(k) = 1)

hasKey(obj, k) == \E j \in 1..Len(obj) : obj[j].key = k

objGet(obj, k, default) ==
    IF hasKey(obj, k) THEN obj[CHOOSE j \in 1..Len(obj) : obj[j].key = k].val
    ELSE default

\* Where a new key goes.
keySlot(obj, k) ==
    IF isArrayIndex(k)
    THEN LET later == {j \in 1..Len(obj) :
                         ~isArrayIndex(obj[j].key)
                         \/ DigitsToInt(obj[j].key) > DigitsToInt(k)}
         IN IF later = {} THEN Len(obj) + 1
            ELSE CHOOSE j \in later : \A i \in later : j <= i
    ELSE Len(obj) + 1

objSet(obj, k, v) ==
    IF hasKey(obj, k)
    THEN [j \in 1..Len(obj) |-> IF obj[j].key = k THEN [key |-> k, val |-> v] ELSE obj[j]]
    ELSE LET p == keySlot(obj, k)
         IN SubSeq(obj, 1, p - 1) \o <<[key |-> k, val |-> v]>> \o SubSeq(obj, p, Len(obj))

objectKeys(obj) == [j \in 1..Len(obj) |-> obj[j].key]

\* A truthy label: present and not the empty string.
hasLabel(labels, k) == k \in DOMAIN labels /\ labels[k] # <<>>

\* Set.add on a Set kept in insertion order.
setAdd(set, x) == IF \E j \in 1..Len(set) : set[j] = x THEN set ELSE Append(set, x)

MethodPlusPath == <<"m","e","t","h","o","d"," ","+"," ","p","a","t","h">>

getGroupKey(labels, groupBy) ==
    IF groupBy = Null \/ groupBy = <<>> THEN <<"A","l","l">>
    ELSE IF groupBy = MethodPlusPath
         THEN LET m == IF hasLabel(labels, <<"m","e","t","h","o","d">>) THEN labels[<<"m","e","t","h","o","d">>] ELSE <<>>
                  p == IF hasLabel(labels, <<"p","a","t","h">>) THEN labels[<<"p","a","t","h">>] ELSE <<>>
              IN IF m # <<>> /\ p # <<>> THEN m \o <<" ">> \o p
                 ELSE IF m # <<>> THEN m
                 ELSE IF p # <<>> THEN p
                 ELSE <<"O","t","h","e","r">>
    ELSE IF hasLabel(labels, groupBy) THEN labels[groupBy]
    ELSE <<"O","t","h","e","r">>

\* l === '+Inf' ? Infinity : Number.parseFloat(l)
leNumber(l) == IF l = <<"+","I","n","f">> THEN Infinity ELSE parseFloat(l)

\* l === Infinity ? '+Inf' : l.toString()
leString(l) == IF l = Infinity THEN <<"+","I","n","f">> ELSE numberToString(l)

\* Array.prototype.sort((a, b) => a.le - b.le), stable, for entries with a
\* numeric field le.
RECURSIVE insertByLe(_, _)
insertByLe(sorted, x) ==
    IF sorted = <<>> THEN <<x>>
    ELSE IF numberLess(x.le, Head(sorted).le) THEN <<x>> \o sorted
    ELSE <<Head(sorted)>> \o insertByLe(Tail(sorted), x)

RECURSIVE sortByLe(_)
sortByLe(arr) ==
    IF arr = <<>> THEN <<>>
    ELSE insertByLe(sortByLe(SubSeq(arr, 1, Len(arr) - 1)), arr[Len(arr)])

\* Array.prototype.sort((a, b) => b.value - a.value), stable.
RECURSIVE insertByValueDesc(_, _)
insertByValueDesc(sorted, x) ==
    IF sorted = <<>> THEN <<x>>
    ELSE IF less(Head(sorted).value, x.value) THEN <<x>> \o sorted
    ELSE <<Head(sorted)>> \o insertByValueDesc(Tail(sorted), x)

RECURSIVE sortByValueDesc(_)
sortByValueDesc(arr) ==
    IF arr = <<>> THEN <<>>
    ELSE insertByValueDesc(sortByValueDesc(SubSeq(arr, 1, Len(arr) - 1)), arr[Len(arr)])

\* Array.prototype.filter for the rows r with keep[r].
RECURSIVE filterSeq(_, _)
filterSeq(arr, keep) ==
    IF arr = <<>> THEN <<>>
    ELSE (IF Head(arr) \in keep THEN <<Head(arr)>> ELSE <<>>) \o filterSeq(Tail(arr), keep)

Range(q) == {q[j] : j \in 1..Len(q)}

\* The cumulative counts of a bucket series: groups[groupKey][le] and the
\* Set allLe, accumulated sample by sample.
NoBuckets == [groups |-> <<>>, allLe |-> <<>>]

bucketStep(acc, item, groupKey) ==
    IF ~hasLabel(item.labels, <<"l","e">>) THEN acc
    ELSE LET le == item.labels[<<"l","e">>]
             group == objGet(acc.groups, groupKey, <<>>)
             count == plus(objGet(group, le, Zero), quantity(item.value))
         IN [groups |-> objSet(acc.groups, groupKey, objSet(group, le, count)),
             allLe |-> setAdd(acc.allLe, le)]

RECURSIVE histogramGroups(_, _, _)
histogramGroups(series, groupBy, acc) ==
    IF series = <<>> THEN acc
    ELSE histogramGroups(Tail(series), groupBy,
            bucketStep(acc, Head(series), getGroupKey(Head(series).labels, groupBy)))

\* The numbers of allLe in ascending order.
sortedLeOf(allLe) ==
    LET sorted == sortByLe([j \in 1..Len(allLe) |-> [le |-> leNumber(allLe[j])]])
    IN [j \in 1..Len(sorted) |-> sorted[j].le]

\* Math.max(0, currVal - prevVal) of one group at row idx (from 1).
exclusiveAt(group, sortedLeStr, idx) ==
    LET currVal == objGet(group, sortedLeStr[idx], Zero)
        prevVal == IF idx > 1 THEN objGet(group, sortedLeStr[idx - 1], Zero) ELSE Zero
    IN max0(minus(currVal, prevVal))

\* The exclusive values of every group at row idx.
exclusiveRow(groups, sortedLeStr, idx) ==
    [gKey \in Range(objectKeys(groups)) |->
        exclusiveAt(objGet(groups, gKey, <<>>), sortedLeStr, idx)]

rangeLabel(leVal, leStr, prevLeLabel, idx, first, unit) ==
    IF leVal = Infinity THEN <<">", " ">> \o prevLeLabel \o unit
    ELSE IF idx = 1 THEN first \o leStr \o unit
    ELSE prevLeLabel \o <<"-">> \o leStr \o unit

EmptyChart == [data |-> <<>>, keys |-> <<>>]

\* Mutant of computeHistogramData: the row of every boundary is returned.
computeHistogramData_keepAll(metrics, baseName, groupBy) ==
    LET series == getMetric(metrics, baseName \o <<"_","b","u","c","k","e","t">>)
        acc == histogramGroups(series, groupBy, NoBuckets)
        sortedLe == sortedLeOf(acc.allLe)
        sortedLeStr == [j \in 1..Len(sortedLe) |-> leString(sortedLe[j])]
        rows == [idx \in 1..Len(sortedLe) |->
                   [range |-> rangeLabel(sortedLe[idx], sortedLeStr[idx],
                                         IF idx = 1 THEN <<"0">> ELSE sortedLeStr[idx - 1],
                                         idx, <<"<", " ">>, <<"s">>),
                    le |-> sortedLe[idx],
                    sortIndex |-> idx - 1,
                    cols |-> exclusiveRow(acc.groups, sortedLeStr, idx)]]
    IN IF ~hasMetric(metrics, baseName \o <<"_","b","u","c","k","e","t">>) THEN EmptyChart
       ELSE [data |-> rows, keys |-> objectKeys(acc.groups)]

computeHistogramData(metrics, baseName, groupBy) ==
    LET series == getMetric(metrics, baseName \o <<"_","b","u","c","k","e","t">>)
        acc == histogramGroups(series, groupBy, NoBuckets)
        sortedLe == sortedLeOf(acc.allLe)
        sortedLeStr == [j \in 1..Len(sortedLe) |-> leString(sortedLe[j])]
        rows == [idx \in 1..Len(sortedLe) |->
                   [range |-> rangeLabel(sortedLe[idx], sortedLeStr[idx],
                                         IF idx = 1 THEN <<"0">> ELSE sortedLeStr[idx - 1],
                                         idx, <<"<", " ">>, <<"s">>),
                    le |-> sortedLe[idx],
                    sortIndex |-> idx - 1,
                    cols |-> exclusiveRow(acc.groups, sortedLeStr, idx)]]
        kept == {r \in Range(rows) : \E k \in DOMAIN r.cols : less(Zero, r.cols[k])}
    IN IF ~hasMetric(metrics, baseName \o <<"_","b","u","c","k","e","t">>) THEN EmptyChart
       ELSE [data |-> filterSeq(rows, kept), keys |-> objectKeys(acc.groups)]

\* computeWidgetData: config.groupBy && config.groupBy !== 'none' ? ... : null
widgetGroupBy(config) ==
    IF config.groupBy = Null \/ config.groupBy = <<>> \/ config.groupBy = <<"n","o","n","e">>
    THEN Null ELSE config.groupBy

\* groupBy ? (item.labels[groupBy] || 'Other') : 'All'
widgetGroupKey(labels, groupBy) ==
    IF groupBy = Null THEN <<"A","l","l">>
    ELSE IF hasLabel(labels, groupBy) THEN labels[groupBy]
    ELSE <<"O","t","h","e","r">>

RECURSIVE widgetGroups(_, _, _)
widgetGroups(series, groupBy, acc) ==
    IF series = <<>> THEN acc
    ELSE widgetGroups(Tail(series), groupBy,
            bucketStep(acc, Head(series), widgetGroupKey(Head(series).labels, groupBy)))

EmptyWidget == [type |-> "empty"]

\* The histogram branch of computeWidgetData (the first range label's sign
\* is written in ASCII).
widgetHistogram(metrics, metricName, groupBy) ==
    LET series == getMetric(metrics, metricName \o <<"_","b","u","c","k","e","t">>)
        acc == widgetGroups(series, groupBy, NoBuckets)
        sortedLe == sortedLeOf(acc.allLe)
        sortedLeStr == [j \in 1..Len(sortedLe) |-> leString(sortedLe[j])]
        rows == [idx \in 1..Len(sortedLe) |->
                   [range |-> rangeLabel(sortedLe[idx], sortedLeStr[idx],
                                         IF idx = 1 THEN <<"0">> ELSE sortedLeStr[idx - 1],
                                         idx, <<"<", "=", " ">>, <<>>),
                    le |-> sortedLe[idx],
                    cols |-> exclusiveRow(acc.groups, sortedLeStr, idx)]]
        kept == {r \in Range(rows) : r.le # Infinity}
    IN IF ~hasMetric(metrics, metricName \o <<"_","b","u","c","k","e","t">>) THEN EmptyWidget
       ELSE [type |-> "histogram", data |-> filterSeq(rows, kept),
             keys |-> objectKeys(acc.groups)]

\* A snapshot that may be absent (undefined or null): <<>> when absent, else
\* the one-element sequence of the snapshot.
NoSnapshot == <<>>

\* String.prototype.includes
includes(s, pat) ==
    \E p \in 1..(Len(s) - Len(pat) + 1) : SubSeq(s, p, p + Len(pat) - 1) = pat

\* getBuckets: the summed value per le label of the filtered series.
RECURSIVE sumByLe(_, _)
sumByLe(series, buckets) ==
    IF series = <<>> THEN buckets
    ELSE LET item == Head(series)
         IN sumByLe(Tail(series),
               IF ~hasLabel(item.labels, <<"l","e">>) THEN buckets
               ELSE objSet(buckets, item.labels[<<"l","e">>],
                           plus(objGet(buckets, item.labels[<<"l","e">>], Zero),
                                quantity(item.value))))

\* The filter callbacks are of the form item => item.labels[label]?.includes(part):
\* a callback is the pair of its label and part.
passes(filterFn, item) ==
    /\ filterFn.label \in DOMAIN item.labels
    /\ includes(item.labels[filterFn.label], filterFn.part)

getBuckets(metrics, metricName, filterFn) ==
    LET series == getMetric(metrics, metricName)
    IN sumByLe(filterSeq(series, {item \in Range(series) : passes(filterFn, item)}), <<>>)

\* One entry of rates per key of currBuckets.
rateOf(le, currBuckets, prevBuckets, timeDiff) ==
    [le |-> leNumber(le),
     rate |-> max0(over(minus(objGet(currBuckets, le, Zero),
                              objGet(prevBuckets, le, Zero)), timeDiff)),
     leLabel |-> le]

\* The threshold 0.001 of the rate rows.
RateEpsilon == [n |-> 1, d |-> 1000]

\* Mutant of computeRateDistribution: the rate of each boundary is returned
\* as it is, not less the rate of the boundary below.
computeRateDistribution_cumulative(currMetrics, prevMetrics, metricName, filterFn, timeDiff) ==
    IF currMetrics = NoSnapshot \/ prevMetrics = NoSnapshot \/ ~less(Zero, timeDiff) THEN <<>>
    ELSE LET currBuckets == getBuckets(currMetrics[1], metricName, filterFn)
             prevBuckets == getBuckets(prevMetrics[1], metricName, filterFn)
             rates == sortByLe([j \in 1..Len(currBuckets) |->
                         rateOf(currBuckets[j].key, currBuckets, prevBuckets, timeDiff)])
             rows == [idx \in 1..Len(rates) |->
                        [range |-> rangeLabel(rates[idx].le, rates[idx].leLabel,
                                      IF idx > 1 THEN rates[idx - 1].leLabel ELSE <<"0">>,
                                      idx, <<"<", " ">>, <<"s">>),
                         count |-> rates[idx].rate,
                         le |-> rates[idx].le]]
         IN filterSeq(rows, {b \in Range(rows) : b.le # Infinity /\ less(RateEpsilon, b.count)})

\* Mutant of computeRateDistribution: a rate is computed without a positive
\* elapsed time, the elapsed time taken as one second.
computeRateDistribution_noGuard(currMetrics, prevMetrics, metricName, filterFn, timeDiff) ==
    IF currMetrics = NoSnapshot THEN <<>>
    ELSE LET elapsed == IF less(Zero, timeDiff) THEN timeDiff ELSE [n |-> 1, d |-> 1]
             currBuckets == getBuckets(currMetrics[1], metricName, filterFn)
             prevBuckets == IF prevMetrics = NoSnapshot THEN <<>>
                            ELSE getBuckets(prevMetrics[1], metricName, filterFn)
             rates == sortByLe([j \in 1..Len(currBuckets) |->
                         rateOf(currBuckets[j].key, currBuckets, prevBuckets, elapsed)])
             rows == [idx \in 1..Len(rates) |->
                        [range |-> rangeLabel(rates[idx].le, rates[idx].leLabel,
                                      IF idx > 1 THEN rates[idx - 1].leLabel ELSE <<"0">>,
                                      idx, <<"<", " ">>, <<"s">>),
                         count |-> max0(minus(rates[idx].rate,
                                      IF idx = 1 THEN Zero ELSE rates[idx - 1].rate)),
                         le |-> rates[idx].le]]
         IN filterSeq(rows, {b \in Range(rows) : b.le # Infinity /\ less(RateEpsilon, b.count)})

computeRateDistribution(currMetrics, prevMetrics, metricName, filterFn, timeDiff) ==
    IF currMetrics = NoSnapshot \/ prevMetrics = NoSnapshot \/ ~less(Zero, timeDiff) THEN <<>>
    ELSE LET currBuckets == getBuckets(currMetrics[1], metricName, filterFn)
             prevBuckets == getBuckets(prevMetrics[1], metricName, filterFn)
             rates == sortByLe([j \in 1..Len(currBuckets) |->
                         rateOf(currBuckets[j].key, currBuckets, prevBuckets, timeDiff)])
             rows == [idx \in 1..Len(rates) |->
                        [range |-> rangeLabel(rates[idx].le, rates[idx].leLabel,
                                      IF idx > 1 THEN rates[idx - 1].leLabel ELSE <<"0">>,
                                      idx, <<"<", " ">>, <<"s">>),
                         count |-> max0(minus(rates[idx].rate,
                                      IF idx = 1 THEN Zero ELSE rates[idx - 1].rate)),
                         le |-> rates[idx].le]]
         IN filterSeq(rows, {b \in Range(rows) : b.le # Infinity /\ less(RateEpsilon, b.count)})

\* --- discoverDistributions
\* The UTF-16 code units of the characters of names, in ascending order.
CodeUnits == <<"0","1","2","3","4","5","6","7","8","9",":">> \o UpperSeq \o <<"_">> \o LowerSeq

charCode(c) == CHOOSE k \in 1..Len(CodeUnits) : CodeUnits[k] = c

\* a < b in the order of Array.prototype.sort() without a comparator.
RECURSIVE stringLess(_, _)
stringLess(a, b) ==
    IF b = <<>> THEN FALSE
    ELSE IF a = <<>> THEN TRUE
    ELSE IF Head(a) = Head(b) THEN stringLess(Tail(a), Tail(b))
    ELSE charCode(Head(a)) < charCode(Head(b))

RECURSIVE sortStrings(_)
sortStrings(arr) ==
    IF arr = <<>> THEN <<>>
    ELSE LET rest == sortStrings(SubSeq(arr, 1, Len(arr) - 1))
             x == arr[Len(arr)]
             k == Cardinality({j \in 1..Len(rest) : ~stringLess(x, rest[j])})
         IN SubSeq(rest, 1, k) \o <<x>> \o SubSeq(rest, k + 1, Len(rest))

endsWith(s, suffix) ==
    Len(s) >= Len(suffix) /\ SubSeq(s, Len(s) - Len(suffix) + 1, Len(s)) = suffix

\* String.prototype.replace(pattern, '') with a string pattern: the first
\* occurrence of the pattern is removed.
removeFirst(s, pattern) ==
    LET at == {k \in 1..(Len(s) - Len(pattern) + 1) : SubSeq(s, k, k + Len(pattern) - 1) = pattern}
    IN IF at = {} THEN s
       ELSE LET k == CHOOSE x \in at : \A y \in at : x <= y
            IN SubSeq(s, 1, k - 1) \o SubSeq(s, k + Len(pattern), Len(s))

\* Mutant of baseNameOf: the trailing _bucket is removed.
baseNameOf_trailing(name) == SubSeq(name, 1, Len(name) - Len(<<"_","b","u","c","k","e","t">>))

\* name.replace('_bucket', '') for a name that ends with _bucket.
baseNameOf(name) == removeFirst(name, <<"_","b","u","c","k","e","t">>)

hasQuantile(series) == \E j \in 1..Len(series) : <<"q","u","a","n","t","i","l","e">> \in DOMAIN series[j].labels

NothingDiscovered == [histograms |-> <<>>, summaries |-> <<>>, counters |-> <<>>]

\* The loop over metrics.entries(): the three sets in insertion order.
RECURSIVE classify(_, _)
classify(metrics, sets) ==
    IF metrics = <<>> THEN sets
    ELSE LET name == Head(metrics).name
         IN classify(Tail(metrics),
               IF endsWith(name, <<"_","b","u","c","k","e","t">>)
               THEN [sets EXCEPT !.histograms = setAdd(@, baseNameOf(name))]
               ELSE IF hasQuantile(Head(metrics).samples)
               THEN [sets EXCEPT !.summaries = setAdd(@, name)]
               ELSE [sets EXCEPT !.counters = setAdd(@, name)])

\* Mutant of discoverDistributions: the lists are left in insertion order.
discoverDistributions_unsorted(metrics) == classify(metrics, NothingDiscovered)

discoverDistributions(metrics) ==
    LET sets == classify(metrics, NothingDiscovered)
    IN [histograms |-> sortStrings(sets.histograms),
        summaries |-> sortStrings(sets.summaries),
        counters |-> sortStrings(sets.counters)]

\* The auto-discover effect after a change of the history: the lists are
\* replaced only when one of the three lengths differs.
autoDiscover(prev, history) ==
    IF history = <<>> THEN prev
    ELSE LET disc == discoverDistributions(history[Len(history)].metrics)
             hasChanges == \/ Len(disc.histograms) # Len(prev.histograms)
                           \/ Len(disc.summaries) # Len(prev.summaries)
                           \/ Len(disc.counters) # Len(prev.counters)
         IN IF hasChanges THEN disc ELSE prev

\* --- buildMetricsCatalog
\* String.prototype.localeCompare for names that differ in more than case:
\* letters compared without case, after the digits, after the punctuation.
LocaleOrder == <<"_", ":", "0","1","2","3","4","5","6","7","8","9">> \o LowerSeq

localeRank(c) == CHOOSE k \in 1..Len(LocaleOrder) : LocaleOrder[k] = toLowerChar(c)

RECURSIVE localeLess(_, _)
localeLess(a, b) ==
    IF b = <<>> THEN FALSE
    ELSE IF a = <<>> THEN TRUE
    ELSE IF localeRank(Head(a)) = localeRank(Head(b)) THEN localeLess(Tail(a), Tail(b))
    ELSE localeRank(Head(a)) < localeRank(Head(b))

RECURSIVE sortByLocale(_)
sortByLocale(arr) ==
    IF arr = <<>> THEN <<>>
    ELSE LET rest == sortByLocale(SubSeq(arr, 1, Len(arr) - 1))
             x == arr[Len(arr)]
             k == Cardinality({j \in 1..Len(rest) : ~localeLess(x, rest[j])})
         IN SubSeq(rest, 1, k) \o <<x>> \o SubSeq(rest, k + 1, Len(rest))

\* The base name of a metric name in the catalog.
catalogBase(metadata, name) ==
    IF endsWith(name, <<"_","b","u","c","k","e","t">>) THEN removeFirst(name, <<"_","b","u","c","k","e","t">>)
    ELSE IF endsWith(name, <<"_","c","o","u","n","t">>) /\ hasMeta(metadata, removeFirst(name, <<"_","c","o","u","n","t">>))
    THEN removeFirst(name, <<"_","c","o","u","n","t">>)
    ELSE IF endsWith(name, <<"_","s","u","m">>) /\ hasMeta(metadata, removeFirst(name, <<"_","s","u","m">>))
    THEN removeFirst(name, <<"_","s","u","m">>)
    ELSE name

CommonPrefixes == {<<"g","o">>, <<"h","t","t","p">>, <<"s","t","o","r","a","g","e">>, <<"t","a","s","k">>, <<"s","e","r","v","i","c","e">>, <<"q","c">>, <<"i","n","f","l","u","x","d","b">>}

\* parts[0], or parts[0]_parts[1] for the common first parts.
prefixOf(baseName) ==
    LET cut(s) == IF \E k \in 1..Len(s) : s[k] = "_"
                  THEN (CHOOSE k \in 1..Len(s) : s[k] = "_" /\ \A j \in 1..(k - 1) : s[j] # "_") - 1
                  ELSE Len(s)
        first == SubSeq(baseName, 1, cut(baseName))
        rest == SubSeq(baseName, Len(first) + 2, Len(baseName))
    IN IF first \in CommonPrefixes /\ Len(first) < Len(baseName)
       THEN first \o <<"_">> \o SubSeq(rest, 1, cut(rest))
       ELSE first

\* The catalog entry pushed for baseName, found under name (the labels are a
\* set here, their order is not represented).
catalogItem(metadata, metrics, name, baseName) ==
    LET metaOf(n) == metadata[CHOOSE j \in 1..Len(metadata) : metadata[j].name = n]
        meta == IF hasMeta(metadata, baseName) THEN metaOf(baseName)
                ELSE IF hasMeta(metadata, name) THEN metaOf(name)
                ELSE [name |-> name, help |-> <<>>, type |-> "untyped"]
        actualType == IF meta.type # "untyped" THEN meta.type
                      ELSE IF hasMetric(metrics, baseName \o <<"_","b","u","c","k","e","t">>) THEN "histogram"
                      ELSE IF hasMetric(metrics, baseName) /\ hasQuantile(getMetric(metrics, baseName))
                      THEN "summary"
                      ELSE "untyped"
        series == IF hasMetric(metrics, baseName) THEN getMetric(metrics, baseName)
                  ELSE IF hasMetric(metrics, baseName \o <<"_","b","u","c","k","e","t">>)
                  THEN getMetric(metrics, baseName \o <<"_","b","u","c","k","e","t">>)
                  ELSE <<>>
    IN [name |-> baseName, help |-> meta.help, type |-> actualType,
        labels |-> UNION {DOMAIN series[j].labels : j \in 1..Len(series)} \ {<<"l","e">>, <<"q","u","a","n","t","i","l","e">>},
        prefix |-> prefixOf(baseName)]

\* The loop over the metric names: one entry per base name not yet processed.
RECURSIVE catalogItems(_, _, _, _)
catalogItems(metadata, metrics, k, items) ==
    IF k > Len(metrics) THEN items
    ELSE LET name == metrics[k].name
             baseName == catalogBase(metadata, name)
         IN catalogItems(metadata, metrics, k + 1,
               IF \E j \in 1..Len(items) : items[j].name = baseName THEN items
               ELSE Append(items, catalogItem(metadata, metrics, name, baseName)))

\* The catalog: the prefixes in locale order, under each its entries in
\* locale order of their names.
buildMetricsCatalog(metadata, metrics) ==
    LET items == catalogItems(metadata, metrics, 1, <<>>)
        RECURSIVE seqOf(_)
        seqOf(set) == IF set = {} THEN <<>>
                      ELSE LET x == CHOOSE y \in set : TRUE IN <<x>> \o seqOf(set \ {x})
        prefixes == sortByLocale(seqOf({items[i].prefix : i \in 1..Len(items)}))
    IN [p \in 1..Len(prefixes) |->
          [prefix |-> prefixes[p],
           metrics |-> LET under == {i \in 1..Len(items) : items[i].prefix = prefixes[p]}
                           names == sortByLocale(seqOf({items[i].name : i \in under}))
                       IN [j \in 1..Len(names) |->
                             items[CHOOSE i \in under : items[i].name = names[j]]]]]

\* ------------------------------------------------------ snapshot history
\* Mutant of appendSnapshot: the truncation is missing.
appendSnapshot_noEvict(prev, entry) == Append(prev, entry)

\* setMetricsHistory(prev => { const newHistory = [...prev, entry];
\*   if (newHistory.length > 60) return newHistory.slice(-60); return newHistory })
appendSnapshot(prev, entry) ==
    LET newHistory == Append(prev, entry)
    IN IF Len(newHistory) > HistoryCap
       THEN SubSeq(newHistory, Len(newHistory) - HistoryCap + 1, Len(newHistory))
       ELSE newHistory

\* Array.prototype.slice(-n)
sliceLast(arr, n) == SubSeq(arr, IF Len(arr) > n THEN Len(arr) - n + 1 ELSE 1, Len(arr))

\* Mutant of manualAppend: the new entry goes to the front.
manualAppend_prepend(prev, entry) ==
    SubSeq(<<entry>> \o prev, 1, IF Len(prev) + 1 > HistoryCap THEN HistoryCap ELSE Len(prev) + 1)

\* setMetricsHistory(prev => [...prev, entry].slice(-60))
manualAppend(prev, entry) == sliceLast(Append(prev, entry), HistoryCap)

\* ------------------------------------------------------- fetch failures
\* What an attempt can throw: e.name and e.message ("" for none).
ErrorNames == {"AbortError", "TypeError", "Error", "URIError"}
ErrorMessages == {"", "Failed to fetch", "HTTP error! status: 500",
                  "HTTP error! failed to fetch", "URI malformed"}
Errors == [name : ErrorNames, message : ErrorMessages]

\* controller.abort() from the attempt's timer rejects the fetch with this.
AbortError == [name |-> "AbortError", message |-> ""]

\* e.message?.toLowerCase().includes('failed to fetch')
includesFailedToFetch(message) ==
    message \in {"Failed to fetch", "HTTP error! failed to fetch"}

\* e.message?.includes('HTTP error')
includesHTTPError(message) ==
    message \in {"HTTP error! status: 500", "HTTP error! failed to fetch"}

\* Mutant of errTypeOf: the HTTP test comes before the low-level fetch test.
errTypeOf_httpFirst(e) ==
    IF e.name = "AbortError" THEN "timeout"
    ELSE IF includesHTTPError(e.message) THEN "http"
    ELSE IF e.name = "TypeError" \/ includesFailedToFetch(e.message) THEN "cors"
    ELSE "network"

\* The catch block's errType.
errTypeOf(e) ==
    IF e.name = "AbortError" THEN "timeout"
    ELSE IF e.name = "TypeError" \/ includesFailedToFetch(e.message) THEN "cors"
    ELSE IF includesHTTPError(e.message) THEN "http"
    ELSE "network"

\* The catch block's errMsg.
errMsgOf(e) ==
    IF e.name = "AbortError" THEN "Request timed out"
    ELSE IF e.name = "TypeError" \/ includesFailedToFetch(e.message)
         THEN "Network request failed (likely CORS or connection issue)"
    ELSE IF e.message = "" THEN "Unknown error"
    ELSE e.message

\* ------------------------------------------------------- fetchMetrics
\* A slot of cycles holds one invocation of fetchMetrics: its loop counter,
\* where it is suspended (awaiting the fetch, or the backoff timer of delay
\* ms), and its locals lastError and lastErrorType.
Idle == [attempt |-> 0, phase |-> "idle", delay |-> 0,
         lastError |-> Null, lastErrorType |-> Null]

FirstAttempt == [attempt |-> 1, phase |-> "fetching", delay |-> 0,
                 lastError |-> Null, lastErrorType |-> Null]

Busy(cs) == {i \in Slots : cs[i] # Idle}

RECURSIVE Pow2(_)
Pow2(n) == IF n = 0 THEN 1 ELSE 2 * Pow2(n - 1)

\* Mutant of backoffMs: the exponent is the attempt number.
backoffMs_offByOne(attempt) == BackoffBaseMs * Pow2(attempt)

\* 100 * Math.pow(2, attempt - 1)
backoffMs(attempt) == BackoffBaseMs * Pow2(attempt - 1)

\* fetchMetrics() up to its first await: attempt 1 is in flight.
startCycle(cs) ==
    LET i == CHOOSE k \in Slots \ Busy(cs) : \A j \in Slots \ Busy(cs) : k <= j
    IN [cs EXCEPT ![i] = FirstAttempt]

CanStart == Busy(cycles) # Slots

\* The Start Live / Pause button, then the polling effect: its cleanup clears
\* the interval; with polling on it calls fetchMetrics and arms the interval.
TogglePolling ==
    /\ polling \/ CanStart
    /\ polling' = ~polling
    /\ interval' = ~polling
    /\ cycles' = IF polling THEN cycles ELSE startCycle(cycles)
    /\ UNCHANGED <<aside, discovered, metricsHistory, error, errorType, now, rawInput, metricsText, explorer>>

\* setUrl, setIntervalMs or setUseProxy while polling: fetchMetrics is a new
\* callback, so the effect is cleaned up and run again.
ChangeSettings ==
    /\ polling /\ CanStart
    /\ cycles' = startCycle(cycles)
    /\ UNCHANGED <<aside, discovered, polling, interval, metricsHistory, error, errorType, now,
                   rawInput, metricsText, explorer>>

\* setInterval(fetchMetrics, intervalMs) fires.
IntervalTick ==
    /\ interval /\ CanStart
    /\ cycles' = startCycle(cycles)
    /\ UNCHANGED <<aside, discovered, polling, interval, metricsHistory, error, errorType, now,
                   rawInput, metricsText, explorer>>

\* The fetch and response.text() of slot i resolve with body text: parse,
\* append, clear the error, return.
AttemptSucceed(i, text) ==
    /\ cycles[i].phase = "fetching"
    /\ metricsHistory' = appendSnapshot(metricsHistory,
           [timestamp |-> now, metrics |-> parsePrometheusMetrics(text)])
    /\ discovered' = autoDiscover(discovered, metricsHistory')
    /\ error' = NoError
    /\ errorType' = Null
    /\ cycles' = [cycles EXCEPT ![i] = Idle]
    /\ UNCHANGED <<aside, polling, interval, now, rawInput, metricsText, explorer>>

\* Mutant of AttemptFail: lastError and lastErrorType keep the first failure.
AttemptFail_firstError(i, e) ==
    /\ cycles[i].phase = "fetching"
    /\ LET c == IF cycles[i].lastError = Null
                THEN [cycles[i] EXCEPT !.lastError = errMsgOf(e), !.lastErrorType = errTypeOf(e)]
                ELSE cycles[i]
       IN IF c.attempt < maxRetries
          THEN /\ cycles' = [cycles EXCEPT ![i] =
                               [c EXCEPT !.phase = "backoff", !.delay = backoffMs(c.attempt)]]
               /\ UNCHANGED <<aside, discovered, polling, interval, error, errorType>>
          ELSE /\ error' = <<c.lastError, maxRetries>>
               /\ errorType' = c.lastErrorType
               /\ polling' = FALSE
               /\ interval' = FALSE
               /\ cycles' = [cycles EXCEPT ![i] = Idle]
    /\ UNCHANGED <<aside, discovered, metricsHistory, now, rawInput, metricsText, explorer>>

\* Mutant of AttemptFail: every failed attempt is shown to the user.
AttemptFail_surfaceEach(i, e) ==
    /\ cycles[i].phase = "fetching"
    /\ LET c == [cycles[i] EXCEPT !.lastError = errMsgOf(e), !.lastErrorType = errTypeOf(e)]
       IN /\ error' = <<c.lastError, c.attempt>>
          /\ errorType' = c.lastErrorType
          /\ IF c.attempt < maxRetries
             THEN /\ cycles' = [cycles EXCEPT ![i] =
                                  [c EXCEPT !.phase = "backoff", !.delay = backoffMs(c.attempt)]]
                  /\ UNCHANGED <<aside, discovered, polling, interval>>
             ELSE /\ polling' = FALSE
                  /\ interval' = FALSE
                  /\ cycles' = [cycles EXCEPT ![i] = Idle]
    /\ UNCHANGED <<aside, discovered, metricsHistory, now, rawInput, metricsText, explorer>>

\* The attempt of slot i throws e: the catch block, then either the backoff
\* wait or, after the last attempt, the code behind the loop.
AttemptFail(i, e) ==
    /\ cycles[i].phase = "fetching"
    /\ LET c == [cycles[i] EXCEPT !.lastError = errMsgOf(e), !.lastErrorType = errTypeOf(e)]
       IN IF c.attempt < maxRetries
          THEN /\ cycles' = [cycles EXCEPT ![i] =
                               [c EXCEPT !.phase = "backoff", !.delay = backoffMs(c.attempt)]]
               /\ UNCHANGED <<aside, discovered, polling, interval, error, errorType>>
          ELSE /\ error' = <<c.lastError, maxRetries>>
               /\ errorType' = c.lastErrorType
               /\ polling' = FALSE
               /\ interval' = FALSE
               /\ cycles' = [cycles EXCEPT ![i] = Idle]
    /\ UNCHANGED <<aside, discovered, metricsHistory, now, rawInput, metricsText, explorer>>

\* setTimeout(() => controller.abort(), intervalMs) fires during the attempt.
AttemptTimeout(i) == AttemptFail(i, AbortError)

\* The backoff timer fires: the loop goes on to the next attempt.
BackoffElapsed(i) ==
    /\ cycles[i].phase = "backoff"
    /\ cycles' = [cycles EXCEPT ![i] =
                    [@ EXCEPT !.attempt = @ + 1, !.phase = "fetching", !.delay = 0]]
    /\ UNCHANGED <<aside, discovered, polling, interval, metricsHistory, error, errorType, now,
                   rawInput, metricsText, explorer>>

\* groups[groupKey] = (groups[groupKey] || 0) + item.value, sample by sample
\* (group keys are taken not to name a member of Object.prototype).
RECURSIVE sumByGroup(_, _, _)
sumByGroup(series, groupBy, groups) ==
    IF series = <<>> THEN groups
    ELSE LET groupKey == getGroupKey(Head(series).labels, groupBy)
         IN sumByGroup(Tail(series), groupBy,
               objSet(groups, groupKey,
                      plus(objGet(groups, groupKey, Zero), quantity(Head(series).value))))

\* Mutant of computeCounterBreakdown: the rows are left in insertion order.
computeCounterBreakdown_unsorted(metrics, metricName, groupBy) ==
    IF ~hasMetric(metrics, metricName) THEN <<>>
    ELSE LET groups == sumByGroup(getMetric(metrics, metricName), groupBy, <<>>)
         IN [j \in 1..Len(groups) |-> [name |-> groups[j].key, value |-> groups[j].val]]

computeCounterBreakdown(metrics, metricName, groupBy) ==
    IF ~hasMetric(metrics, metricName) THEN <<>>
    ELSE LET groups == sumByGroup(getMetric(metrics, metricName), groupBy, <<>>)
         IN sortByValueDesc([j \in 1..Len(groups) |->
                               [name |-> groups[j].key, value |-> groups[j].val]])

\* The group of a quantile sample: its labels other than quantile as
\* "k: v" joined by ", ", or Global.  (The entries of a label set are not
\* ordered here; the order matters only with two or more other labels.)
RECURSIVE labelParts(_, _)
labelParts(labels, keys) ==
    IF keys = {} THEN <<>>
    ELSE LET k == CHOOSE x \in keys : TRUE
         IN k \o <<":"," ">> \o labels[k]
            \o (IF keys = {k} THEN <<>> ELSE <<","," ">> \o labelParts(labels, keys \ {k}))

summaryKey(labels) ==
    IF DOMAIN labels \ {<<"q","u","a","n","t","i","l","e">>} = {} THEN <<"G","l","o","b","a","l">>
    ELSE labelParts(labels, DOMAIN labels \ {<<"q","u","a","n","t","i","l","e">>})

\* The number of series kept by computeSummaryData.
TopSeries == 5

\* One quantile sample: the group gets { max: 0 } when new, then its value
\* for the quantile and its max (a quantile is taken not to be spelled max).
RECURSIVE summaryGroups(_, _)
summaryGroups(quantiles, acc) ==
    IF quantiles = <<>> THEN acc
    ELSE LET item == Head(quantiles)
             quantile == item.labels[<<"q","u","a","n","t","i","l","e">>]
             key == summaryKey(item.labels)
             old == objGet(acc.groups, key, [max |-> Num(0, 0), at |-> <<>>])
             new == [max |-> IF numberLess(old.max, item.value) THEN item.value ELSE old.max,
                     at |-> objSet(old.at, quantile, item.value)]
         IN summaryGroups(Tail(quantiles),
               [groups |-> objSet(acc.groups, key, new),
                allQuantiles |-> setAdd(acc.allQuantiles, quantile)])

\* Mutant of computeSummaryData: the groups are kept in order of appearance.
computeSummaryData_firstSeen(metrics, name) ==
    IF ~hasMetric(metrics, name) THEN EmptyChart
    ELSE LET series == getMetric(metrics, name)
             quantiles == filterSeq(series, {s \in Range(series) : <<"q","u","a","n","t","i","l","e">> \in DOMAIN s.labels})
             acc == summaryGroups(quantiles, [groups |-> <<>>, allQuantiles |-> <<>>])
             byNumber == sortByLe([j \in 1..Len(acc.allQuantiles) |->
                            [le |-> parseFloat(acc.allQuantiles[j]), q |-> acc.allQuantiles[j]]])
             topSeries == SubSeq(objectKeys(acc.groups), 1,
                                 IF Len(acc.groups) < TopSeries THEN Len(acc.groups) ELSE TopSeries)
         IN [data |-> [j \in 1..Len(byNumber) |->
                         [name |-> <<"P">> \o numberToString(Normalize(byNumber[j].le.m, byNumber[j].le.e + 2)),
                          cols |-> [seriesName \in Range(topSeries) |->
                                      objGet(objGet(acc.groups, seriesName, Null).at,
                                             byNumber[j].q, Num(0, 0))]]],
             keys |-> topSeries]

\* computeSummaryData: the quantile samples grouped by their other labels,
\* the quantiles sorted by number, the first TopSeries groups by max in
\* descending order, one row per quantile with a column per kept group.
\* (The maxima are finite.)
computeSummaryData(metrics, name) ==
    IF ~hasMetric(metrics, name) THEN EmptyChart
    ELSE LET series == getMetric(metrics, name)
             quantiles == filterSeq(series, {s \in Range(series) : <<"q","u","a","n","t","i","l","e">> \in DOMAIN s.labels})
             acc == summaryGroups(quantiles, [groups |-> <<>>, allQuantiles |-> <<>>])
             byNumber == sortByLe([j \in 1..Len(acc.allQuantiles) |->
                            [le |-> parseFloat(acc.allQuantiles[j]), q |-> acc.allQuantiles[j]]])
             byMax == sortByValueDesc([j \in 1..Len(acc.groups) |->
                            [name |-> acc.groups[j].key, value |-> quantity(acc.groups[j].val.max)]])
             topSeries == [j \in 1..(IF Len(byMax) < TopSeries THEN Len(byMax) ELSE TopSeries) |->
                             byMax[j].name]
         IN [data |-> [j \in 1..Len(byNumber) |->
                         [name |-> <<"P">> \o numberToString(Normalize(byNumber[j].le.m, byNumber[j].le.e + 2)),
                          cols |-> [seriesName \in Range(topSeries) |->
                                      objGet(objGet(acc.groups, seriesName, Null).at,
                                             byNumber[j].q, Num(0, 0))]]],
             keys |-> topSeries]

\* --- the summary branch of computeWidgetData
\* groupSums / groupCounts: the values of a series added up per
\* item.labels[groupBy] || 'Other'.
RECURSIVE widgetSums(_, _, _)
widgetSums(series, groupBy, sums) ==
    IF series = <<>> THEN sums
    ELSE LET gKey == widgetGroupKey(Head(series).labels, groupBy)
         IN widgetSums(Tail(series), groupBy,
               objSet(sums, gKey, plus(objGet(sums, gKey, Zero), quantity(Head(series).value))))

\* Mutant of groupAverages: every group gets the average over all groups.
groupAverages_global(metrics, metricName, groupBy) ==
    IF ~(hasMetric(metrics, metricName \o <<"_","s","u","m">>) /\ hasMetric(metrics, metricName \o <<"_","c","o","u","n","t">>))
    THEN <<>>
    ELSE LET groupSums == widgetSums(getMetric(metrics, metricName \o <<"_","s","u","m">>), groupBy, <<>>)
             s == widgetSums(getMetric(metrics, metricName \o <<"_","s","u","m">>), Null, <<>>)
             c == widgetSums(getMetric(metrics, metricName \o <<"_","c","o","u","n","t">>), Null, <<>>)
         IN [j \in 1..Len(groupSums) |->
               [key |-> groupSums[j].key,
                val |-> IF less(Zero, objGet(c, <<"A","l","l">>, Zero))
                        THEN over(objGet(s, <<"A","l","l">>, Zero), objGet(c, <<"A","l","l">>, Zero)) ELSE Zero]]

\* groupAvgs: when both the _sum and the _count series exist, for every
\* group of the _sum series its sum over its count, 0 without a positive
\* count.
groupAverages(metrics, metricName, groupBy) ==
    IF ~(hasMetric(metrics, metricName \o <<"_","s","u","m">>) /\ hasMetric(metrics, metricName \o <<"_","c","o","u","n","t">>))
    THEN <<>>
    ELSE LET groupSums == widgetSums(getMetric(metrics, metricName \o <<"_","s","u","m">>), groupBy, <<>>)
             groupCounts == widgetSums(getMetric(metrics, metricName \o <<"_","c","o","u","n","t">>), groupBy, <<>>)
         IN [j \in 1..Len(groupSums) |->
               [key |-> groupSums[j].key,
                val |-> LET s == groupSums[j].val
                            c == objGet(groupCounts, groupSums[j].key, Zero)
                        IN IF less(Zero, c) THEN over(s, c) ELSE Zero]]

\* groups[groupKey][quantile] = (groups[groupKey][quantile] || 0) + value
RECURSIVE widgetQuantiles(_, _, _)
widgetQuantiles(quantiles, groupBy, acc) ==
    IF quantiles = <<>> THEN acc
    ELSE LET item == Head(quantiles)
             quantile == item.labels[<<"q","u","a","n","t","i","l","e">>]
             groupKey == widgetGroupKey(item.labels, groupBy)
             old == objGet(acc.groups, groupKey, <<>>)
         IN widgetQuantiles(Tail(quantiles), groupBy,
               [groups |-> objSet(acc.groups, groupKey,
                              objSet(old, quantile,
                                     plus(objGet(old, quantile, Zero), quantity(item.value)))),
                allQuantiles |-> setAdd(acc.allQuantiles, quantile)])

\* Math.max(quantileGroups[pctKey] || 0, q.value) per percentile name.
RECURSIVE quantileMaxima(_, _)
quantileMaxima(quantiles, quantileGroups) ==
    IF quantiles = <<>> THEN quantileGroups
    ELSE LET pct == parseFloat(Head(quantiles).labels[<<"q","u","a","n","t","i","l","e">>])
             pctKey == <<"P">> \o numberToString(Normalize(pct.m, pct.e + 2))
             old == objGet(quantileGroups, pctKey, Zero)
             v == quantity(Head(quantiles).value)
         IN quantileMaxima(Tail(quantiles),
               objSet(quantileGroups, pctKey, IF less(old, v) THEN v ELSE old))

\* The summary branch of computeWidgetData (sample values are finite; a
\* group is taken not to be called name).
widgetSummary(metrics, metricName, groupBy) ==
    LET hasSeries == hasMetric(metrics, metricName)
        hasSum == hasMetric(metrics, metricName \o <<"_","s","u","m">>)
        hasCount == hasMetric(metrics, metricName \o <<"_","c","o","u","n","t">>)
        series == IF hasSeries THEN getMetric(metrics, metricName) ELSE <<>>
        quantiles == filterSeq(series, {s \in Range(series) : <<"q","u","a","n","t","i","l","e">> \in DOMAIN s.labels})
        sum == IF hasSum
               THEN objGet(widgetSums(getMetric(metrics, metricName \o <<"_","s","u","m">>), Null, <<>>), <<"A","l","l">>, Zero)
               ELSE Zero
        count == IF hasCount
                 THEN objGet(widgetSums(getMetric(metrics, metricName \o <<"_","c","o","u","n","t">>), Null, <<>>), <<"A","l","l">>, Zero)
                 ELSE Zero
        avg == IF less(Zero, count) THEN over(sum, count) ELSE Zero
        groupAvgs == groupAverages(metrics, metricName, groupBy)
        bar == [type |-> "bar",
                data |-> sortByValueDesc([j \in 1..Len(groupAvgs) |->
                            [name |-> groupAvgs[j].key, value |-> groupAvgs[j].val]])]
        acc == widgetQuantiles(quantiles, groupBy, [groups |-> <<>>, allQuantiles |-> <<>>])
        groupKeys == objectKeys(acc.groups)
        byNumber == sortByLe([j \in 1..Len(acc.allQuantiles) |->
                       [le |-> parseFloat(acc.allQuantiles[j]), q |-> acc.allQuantiles[j]]])
        rows == [j \in 1..Len(byNumber) |->
                   [name |-> <<"P">> \o numberToString(Normalize(byNumber[j].le.m, byNumber[j].le.e + 2)),
                    cols |-> [gKey \in Range(groupKeys) |->
                                objGet(objGet(acc.groups, gKey, <<>>), byNumber[j].q, Zero)]]]
        quantileData == filterSeq(rows,
                           {row \in Range(rows) : \E gKey \in Range(groupKeys) : less(Zero, row.cols[gKey])})
        avgRow == [name |-> <<"A","v","g">>,
                   cols |-> [gKey \in Range(groupKeys) |-> objGet(groupAvgs, gKey, Zero)]]
        maxima == quantileMaxima(quantiles, <<>>)
        byPercent == sortByLe([j \in 1..Len(maxima) |->
                        [le |-> parseFloat(Tail(maxima[j].key)),
                         name |-> maxima[j].key, value |-> maxima[j].val]])
    IN IF ~hasSeries /\ ~hasSum /\ ~hasCount THEN EmptyWidget
       ELSE IF groupBy # Null /\ quantiles # <<>> /\ quantileData = <<>> /\ groupAvgs # <<>> THEN bar
       ELSE IF groupBy # Null /\ quantiles # <<>>
            THEN [type |-> "summary-grouped", data |-> <<avgRow>> \o quantileData,
                  keys |-> groupKeys, avg |-> avg, sum |-> sum, count |-> count]
       ELSE IF groupBy # Null /\ groupAvgs # <<>> THEN bar
       ELSE IF quantiles # <<>>
            THEN [type |-> "summary",
                  data |-> <<[name |-> <<"A","v","g">>, value |-> avg, isAvg |-> TRUE]>>
                           \o [j \in 1..Len(byPercent) |->
                                 [name |-> byPercent[j].name, value |-> byPercent[j].value,
                                  isAvg |-> FALSE]],
                  avg |-> avg, sum |-> sum, count |-> count]
       ELSE [type |-> "single", value |-> avg]

\* --- getMetricValue
\* Mutant of getMetricValue: an absent metric gives no number.
getMetricValue_undefined(metrics, name, labelFilters) ==
    IF ~hasMetric(metrics, name) THEN [n |-> 0, d |-> 0]
    ELSE LET metricSeries == getMetric(metrics, name)
             matches == filterSeq(metricSeries,
                           {item \in Range(metricSeries) :
                               \A k \in DOMAIN labelFilters :
                                  k \in DOMAIN item.labels /\ item.labels[k] = labelFilters[k]})
         IN objGet(sumByGroup(matches, Null, <<>>), <<"A","l","l">>, Zero)

\* The sum of the values of the samples that carry every label of
\* labelFilters with its value, 0 for an absent metric.
getMetricValue(metrics, name, labelFilters) ==
    IF ~hasMetric(metrics, name) THEN Zero
    ELSE LET metricSeries == getMetric(metrics, name)
             matches == filterSeq(metricSeries,
                           {item \in Range(metricSeries) :
                               \A k \in DOMAIN labelFilters :
                                  k \in DOMAIN item.labels /\ item.labels[k] = labelFilters[k]})
         IN objGet(sumByGroup(matches, Null, <<>>), <<"A","l","l">>, Zero)

\* ---------------------------------------------------- App's derived data
\* Computed at every render from metricsHistory.
currentSnapshot ==
    IF metricsHistory = <<>> THEN NoSnapshot
    ELSE <<metricsHistory[Len(metricsHistory)].metrics>>

prevSnapshot ==
    IF Len(metricsHistory) > 1 THEN <<metricsHistory[Len(metricsHistory) - 1].metrics>>
    ELSE NoSnapshot

\* Seconds between the last two snapshots.
timeDiff ==
    IF Len(metricsHistory) > 1
    THEN Q(metricsHistory[Len(metricsHistory)].timestamp
              - metricsHistory[Len(metricsHistory) - 1].timestamp, 1000)
    ELSE Zero

WriteLatencyBucket == <<"h","t","t","p","_","a","p","i","_","r","e","q","u","e","s","t","_","d","u","r","a","t","i","o","n","_","s","e","c","o","n","d","s","_","b","u","c","k","e","t">>

\* (item) => item.labels.path?.includes('/write')
WriteFilter == [label |-> <<"p","a","t","h">>, part |-> <<"/","w","r","i","t","e">>]

writeLatencyRate ==
    computeRateDistribution(currentSnapshot, prevSnapshot, WriteLatencyBucket,
                            WriteFilter, timeDiff)

\* Mutant of writeLatencyCumulative: the rows are the cumulative counts.
writeLatencyCumulative_inclusive ==
    IF currentSnapshot = NoSnapshot THEN <<>>
    ELSE LET buckets == getBuckets(currentSnapshot[1], WriteLatencyBucket, WriteFilter)
             sortedLe == sortByLe([j \in 1..Len(buckets) |->
                            [le |-> leNumber(buckets[j].key), leLabel |-> buckets[j].key]])
             rows == [idx \in 1..Len(sortedLe) |->
                        [range |-> rangeLabel(sortedLe[idx].le, sortedLe[idx].leLabel,
                                      IF idx > 1 THEN sortedLe[idx - 1].leLabel ELSE <<"0">>,
                                      idx, <<"<", " ">>, <<"s">>),
                         count |-> objGet(buckets, sortedLe[idx].leLabel, Zero),
                         le |-> sortedLe[idx].le]]
         IN filterSeq(rows, {b \in Range(rows) : b.le # Infinity /\ less(Zero, b.count)})

writeLatencyCumulative ==
    IF currentSnapshot = NoSnapshot THEN <<>>
    ELSE LET buckets == getBuckets(currentSnapshot[1], WriteLatencyBucket, WriteFilter)
             sortedLe == sortByLe([j \in 1..Len(buckets) |->
                            [le |-> leNumber(buckets[j].key), leLabel |-> buckets[j].key]])
             rows == [idx \in 1..Len(sortedLe) |->
                        [range |-> rangeLabel(sortedLe[idx].le, sortedLe[idx].leLabel,
                                      IF idx > 1 THEN sortedLe[idx - 1].leLabel ELSE <<"0">>,
                                      idx, <<"<", " ">>, <<"s">>),
                         count |-> max0(minus(objGet(buckets, sortedLe[idx].leLabel, Zero),
                                       IF idx > 1
                                       THEN objGet(buckets, sortedLe[idx - 1].leLabel, Zero)
                                       ELSE Zero)),
                         le |-> sortedLe[idx].le]]
         IN filterSeq(rows, {b \in Range(rows) : b.le # Infinity /\ less(Zero, b.count)})

\* Mutant of writeLatencyDist: always the rate series.
writeLatencyDist_rateOnly == writeLatencyRate

writeLatencyDist ==
    IF Len(writeLatencyRate) > 0 THEN writeLatencyRate ELSE writeLatencyCumulative

\* Time passes.
Elapse(ms) ==
    /\ now' = now + ms
    /\ UNCHANGED <<aside, discovered, polling, interval, metricsHistory, error, errorType, cycles,
                   rawInput, metricsText, explorer>>

\* ------------------------------------------------------- the dashboard
\* setLayouts({}) and the initial layouts: every breakpoint without items.
NoLayouts == [lg |-> <<>>, md |-> <<>>, sm |-> <<>>]

\* The state ExplorerDashboard's handlers leave alone.
dashVars == <<polling, interval, metricsHistory, error, errorType, cycles, now,
              rawInput, metricsText, explorer, discovered, proxy>>

\* handleAddMetric's widgetW, widgetH and cols.
widgetW == 4
widgetH == 2
cols == 12

Min(a, b) == IF a < b THEN a ELSE b

\* The Set of the cells 'col,row' the items cover.
getOccupiedCells(items) ==
    UNION {{<<col, row>> : col \in items[j].x..(items[j].x + items[j].w - 1),
                           row \in items[j].y..(items[j].y + items[j].h - 1)} :
           j \in 1..Len(items)}

canPlace(x, y, w, h, occupied) ==
    IF x + w > cols THEN FALSE
    ELSE \A row \in y..(y + h - 1) : \A col \in x..(x + w - 1) : <<col, row>> \notin occupied

\* items.reduce((max, item) => Math.max(max, item.y + item.h), 0)
RECURSIVE maxYOf(_)
maxYOf(items) ==
    IF items = <<>> THEN 0
    ELSE LET rest == maxYOf(Tail(items))
             bottom == Head(items).y + Head(items).h
         IN IF bottom > rest THEN bottom ELSE rest

\* The scan of findPosition from row y, column x on: row by row, left to
\* right, the first place that is free, or the fallback after the last row.
RECURSIVE scanFrom(_, _, _, _, _, _)
scanFrom(x, y, w, h, occupied, maxY) ==
    IF y > maxY + h THEN [x |-> 0, y |-> maxY]
    ELSE IF x > cols - w THEN scanFrom(0, y + 1, w, h, occupied, maxY)
    ELSE IF canPlace(x, y, w, h, occupied) THEN [x |-> x, y |-> y]
    ELSE scanFrom(x + 1, y, w, h, occupied, maxY)

findPosition(items, w, h) ==
    scanFrom(0, 0, w, h, getOccupiedCells(items), maxYOf(items))

\* The catalog entries a widget is added for.
DashMetrics == {<<"a">>, <<"b">>}

\* handleAddMetric(metric): the widget's id is 'widget-' and Date.now(); of
\* the widget's configuration the metric name is kept.
handleAddMetric(metric) ==
    LET newWidget == [id |-> now, metricName |-> metric]
        pos == findPosition(layouts.lg, widgetW, widgetH)
        newLayout == [i |-> newWidget.id, x |-> pos.x, y |-> pos.y,
                      w |-> widgetW, h |-> widgetH, minW |-> 2, minH |-> 2]
    IN /\ Len(widgets) < MaxWidgets
       /\ widgets' = Append(widgets, newWidget)
       /\ layouts' = [lg |-> Append(layouts.lg, newLayout),
                      md |-> Append(layouts.md, [newLayout EXCEPT !.x = Min(pos.x, 6), !.w = 4]),
                      sm |-> Append(layouts.sm, [newLayout EXCEPT !.x = 0, !.w = 4])]
       /\ UNCHANGED dashVars

\* prev.filter(l => l.i !== widgetId), prev.filter(w => w.id !== widgetId)
RECURSIVE withoutItem(_, _)
withoutItem(items, widgetId) ==
    IF items = <<>> THEN <<>>
    ELSE (IF Head(items).i # widgetId THEN <<Head(items)>> ELSE <<>>)
         \o withoutItem(Tail(items), widgetId)

RECURSIVE withoutWidget(_, _)
withoutWidget(ws, widgetId) ==
    IF ws = <<>> THEN <<>>
    ELSE (IF Head(ws).id # widgetId THEN <<Head(ws)>> ELSE <<>>)
         \o withoutWidget(Tail(ws), widgetId)

\* handleRemoveWidget(widgetId), called by the remove button of a widget.
handleRemoveWidget(widgetId) ==
    /\ \E k \in 1..Len(widgets) : widgets[k].id = widgetId
    /\ widgets' = withoutWidget(widgets, widgetId)
    /\ layouts' = [lg |-> withoutItem(layouts.lg, widgetId),
                   md |-> withoutItem(layouts.md, widgetId),
                   sm |-> withoutItem(layouts.sm, widgetId)]
    /\ UNCHANGED dashVars

\* handleClearAll: nothing changes unless the user confirms.
handleClearAll(confirmed) ==
    /\ widgets # <<>>
    /\ widgets' = IF confirmed THEN <<>> ELSE widgets
    /\ layouts' = IF confirmed THEN NoLayouts ELSE layouts
    /\ UNCHANGED dashVars

\* ------------------------------------------------------ the proxy server
\* No /api/proxy request has arrived.
NoRequest == [stage |-> "none", responseSent |-> FALSE, headersSent |-> FALSE,
              piping |-> FALSE, responses |-> <<>>, destroyed |-> FALSE,
              drained |-> 0, refused |-> 0, seen |-> {}, history |-> <<>>]

\* One request to /api/proxy: stage is none before the request, open while
\* the upstream request exists, rejected after a 400; responses lists the
\* status of every response started to the client; seen holds the events
\* that have been delivered.  The events may arrive in any order.
proxyVars == <<polling, interval, metricsHistory, error, errorType, cycles, now,
               rawInput, metricsText, explorer, discovered, widgets, layouts>>

UpstreamStatuses == {200, 404, 500}

\* Mutant of sendErrorResponse: the response is sent without looking at
\* responseSent.
sendErrorResponse_unguarded(p, statusCode) ==
    [p EXCEPT !.responseSent = TRUE, !.headersSent = TRUE,
              !.responses = Append(@, statusCode)]

\* sendErrorResponse: nothing but a log line once a response was sent.
sendErrorResponse(p, statusCode) ==
    IF p.responseSent \/ p.headersSent THEN [p EXCEPT !.refused = @ + 1]
    ELSE [p EXCEPT !.responseSent = TRUE, !.headersSent = TRUE,
                   !.responses = Append(@, statusCode)]

\* The handler up to proxyReq.end(): 400 without a usable url.
ProxyRequest(usable) ==
    /\ proxy.stage = "none"
    /\ proxy' = IF usable THEN [proxy EXCEPT !.stage = "open"]
                ELSE [proxy EXCEPT !.stage = "rejected", !.headersSent = TRUE,
                                   !.responses = Append(@, 400)]
    /\ UNCHANGED proxyVars

\* The upstream response callback: status and headers are forwarded unless a
\* response was sent, else the response is drained.
UpstreamResponse(statusCode) ==
    /\ proxy.stage = "open"
    /\ "response" \notin proxy.seen
    /\ proxy' = IF proxy.responseSent \/ proxy.headersSent
                THEN [proxy EXCEPT !.drained = @ + 1, !.seen = @ \cup {"response"}]
                ELSE [proxy EXCEPT !.responseSent = TRUE,
                                   !.responses = Append(@, statusCode),
                                   !.piping = TRUE,
                                   !.seen = @ \cup {"response"}]
    /\ UNCHANGED proxyVars

\* proxyRes.pipe(res) writes the first chunk: the headers are flushed.
UpstreamData ==
    /\ proxy.piping
    /\ ~proxy.headersSent
    /\ proxy' = [proxy EXCEPT !.headersSent = TRUE]
    /\ UNCHANGED proxyVars

\* proxyReq's error event.
UpstreamError ==
    /\ proxy.stage = "open"
    /\ "error" \notin proxy.seen
    /\ proxy' = [sendErrorResponse(proxy, 502) EXCEPT !.seen = @ \cup {"error"}]
    /\ UNCHANGED proxyVars

\* The 30 s timeout of proxyReq.
ProxyTimeout ==
    /\ proxy.stage = "open"
    /\ "timeout" \notin proxy.seen
    /\ proxy' = [sendErrorResponse([proxy EXCEPT !.destroyed = TRUE], 504)
                   EXCEPT !.seen = @ \cup {"timeout"}]
    /\ UNCHANGED proxyVars

\* The client's close event.
ClientClose ==
    /\ proxy.stage = "open"
    /\ "close" \notin proxy.seen
    /\ proxy' = [proxy EXCEPT !.destroyed = @ \/ ~proxy.responseSent,
                              !.seen = @ \cup {"close"}]
    /\ UNCHANGED proxyVars

\* The connection is used for the next request.
NextRequest ==
    /\ proxy.stage # "none"
    /\ Len(proxy.history) < MaxRequests
    /\ proxy' = [NoRequest EXCEPT !.history = Append(proxy.history, proxy.responses)]
    /\ UNCHANGED proxyVars

\* ------------------------------------------------------ the other handlers
\* The Parse Data & Explore button.
handleManualParse ==
    /\ metricsHistory' = manualAppend(metricsHistory,
           [timestamp |-> now, metrics |-> parsePrometheusMetrics(rawInput)])
    /\ discovered' = autoDiscover(discoverDistributions(parsePrometheusMetrics(rawInput)),
                                  metricsHistory')
    /\ error' = NoError
    /\ errorType' = Null
    /\ UNCHANGED <<aside, polling, interval, cycles, now, rawInput, metricsText, explorer>>

\* The textarea's onChange.
SetRawInput(text) ==
    /\ rawInput' = text
    /\ UNCHANGED <<aside, discovered, polling, interval, metricsHistory, error, errorType, cycles, now,
                   metricsText, explorer>>

\* ExplorerDashboard is rendered with a new metricsText.
RenderExplorer(text) ==
    /\ metricsText' = text
    /\ explorer' = explorerMemo(text)
    /\ UNCHANGED <<aside, discovered, polling, interval, metricsHistory, error, errorType, cycles, now,
                   rawInput>>

\* The wall clock advances.
Tick ==
    /\ now < MaxClock
    /\ now' = now + 1
    /\ UNCHANGED <<aside, discovered, polling, interval, metricsHistory, error, errorType, cycles,
                   rawInput, metricsText, explorer>>

Init ==
    /\ polling = FALSE
    /\ interval = FALSE
    /\ metricsHistory = <<>>
    /\ error = NoError
    /\ errorType = Null
    /\ cycles = [i \in Slots |-> Idle]
    /\ now = 0
    /\ rawInput = <<>>
    /\ metricsText = <<>>
    /\ explorer = explorerMemo(<<>>)
    /\ discovered = NothingDiscovered
    /\ widgets = <<>>
    /\ layouts = NoLayouts
    /\ proxy = NoRequest

\* ------------------------------------------------------- specifications
\* The endpoint's body in the controller specifications.
EmptyBody == <<>>

\* What the attempts throw in the controller specification, besides the
\* timeout's abort: a failed fetch and a non-2xx status.
PollErrors == {[name |-> "TypeError", message |-> "Failed to fetch"],
               [name |-> "Error", message |-> "HTTP error! status: 500"]}

CanAppend == Len(metricsHistory) < MaxHistory

\* The polling controller; the history is explored up to MaxHistory entries.
Next ==
    \/ TogglePolling
    \/ ChangeSettings
    \/ IntervalTick
    \/ \E i \in Slots : CanAppend /\ AttemptSucceed(i, EmptyBody)
    \/ \E i \in Slots : \E e \in PollErrors : AttemptFail(i, e)
    \/ \E i \in Slots : AttemptTimeout(i)
    \/ \E i \in Slots : BackoffElapsed(i)
    \/ CanAppend /\ handleManualParse

Spec == Init /\ [][Next]_vars

\* Successful poll cycles and manual parses against the clock, with the
\* history at its full capacity.
NextHist ==
    \/ TogglePolling
    \/ IntervalTick
    \/ \E i \in Slots : AttemptSucceed(i, EmptyBody)
    \/ handleManualParse
    \/ Tick

SpecHist == Init /\ [][NextHist]_vars

\* One cycle at a time, its attempts throwing every error of Errors.
NextErr ==
    \/ (polling \/ Busy(cycles) = {}) /\ TogglePolling
    \/ \E i \in Slots : \E e \in Errors : AttemptFail(i, e)
    \/ \E i \in Slots : BackoffElapsed(i)

SpecErr == Init /\ [][NextErr]_vars

\* The proxy server under every order of its events.
NextProxy ==
    \/ \E usable \in BOOLEAN : ProxyRequest(usable)
    \/ \E statusCode \in UpstreamStatuses : UpstreamResponse(statusCode)
    \/ UpstreamData
    \/ UpstreamError
    \/ ProxyTimeout
    \/ ClientClose
    \/ NextRequest

SpecProxy == Init /\ [][NextProxy]_vars

\* The dashboard: widgets are added, removed and cleared while time passes.
NextDash ==
    \/ \E metric \in DashMetrics : handleAddMetric(metric)
    \/ \E k \in 1..Len(widgets) : handleRemoveWidget(widgets[k].id)
    \/ \E confirmed \in BOOLEAN : handleClearAll(confirmed)
    \/ Tick

SpecDash == Init /\ [][NextDash]_vars

\* ------------------------------------------------------ parser inputs
\* Longest label value and most lines per text explored.
MaxLabelLen == 2
MaxLines == 3

\* Exposition text for a sample: label values escaped by the format's rules
\* (backslash as \\, quote as \", newline as \n).
escapeChar(c) ==
    IF c = BSLASH THEN <<BSLASH, BSLASH>>
    ELSE IF c = QUOTE THEN <<BSLASH, QUOTE>>
    ELSE IF c = LF THEN <<BSLASH, "n">>
    ELSE <<c>>

RECURSIVE escapeLabelValue(_)
escapeLabelValue(v) ==
    IF v = <<>> THEN <<>> ELSE escapeChar(Head(v)) \o escapeLabelValue(Tail(v))

LabelKeys == <<(<<"a">>), (<<"b">>)>>

RECURSIVE formatLabels(_, _, _)
formatLabels(labels, k, first) ==
    IF k > Len(LabelKeys) THEN <<>>
    ELSE IF LabelKeys[k] \in DOMAIN labels
         THEN (IF first THEN <<>> ELSE <<",">>)
              \o LabelKeys[k] \o <<"=", QUOTE>>
              \o escapeLabelValue(labels[LabelKeys[k]]) \o <<QUOTE>>
              \o formatLabels(labels, k + 1, FALSE)
         ELSE formatLabels(labels, k + 1, first)

formatLine(g) ==
    g.name
    \o (IF DOMAIN g.labels = {} THEN <<>>
        ELSE <<"{">> \o formatLabels(g.labels, 1, TRUE) \o <<"}">>)
    \o <<" ">> \o g.token

LabelAlphabet == {QUOTE, BSLASH, LF, "n", ",", "}"}

RECURSIVE SeqsUpTo(_, _)
SeqsUpTo(S, n) ==
    IF n = 0 THEN {<<>>}
    ELSE LET shorter == SeqsUpTo(S, n - 1)
         IN shorter \cup {Append(q, c) : q \in shorter, c \in S}

LabelValues == SeqsUpTo(LabelAlphabet, MaxLabelLen)

\* Values with their exposition tokens.
GivenValues == {[token |-> <<"7">>, value |-> Num(7, 0)],
                [token |-> <<"2", ".", "5">>, value |-> Num(25, -1)],
                [token |-> <<"+", "I", "n", "f">>, value |-> Infinity]}

GivenLabels ==
    {(<<"a">> :> v) : v \in LabelValues}
    \cup {(<<"a">> :> v) @@ (<<"b">> :> <<"x">>) : v \in LabelValues}

\* The samples a data line is built from.
Given == {[name |-> <<"m">>, labels |-> L, token |-> gv.token, value |-> gv.value] :
            L \in GivenLabels, gv \in GivenValues}

GivenLines == {formatLine(g) : g \in Given}

LinePool ==
    {<<"m"," ","1">>,
     <<"m","{","a","=",QUOTE,"x",QUOTE,"}"," ","2">>,
     <<"w","{","b","a","d">>,
     <<"m"," ","x">>,
     <<"#"," ","T","Y","P","E"," ","m"," ","g","a","u","g","e">>,
     <<" ","n"," ","3">>}

\* Value tokens of the data regex's value class, each with the value a
\* JavaScript engine stores for it: numeric literals (parseFloat reads the
\* longest numeric prefix), the infinities, and tokens without a digit.
ValueTokens ==
    {[token |-> <<"N","a","N">>, stored |-> Num(0, 0)],
     [token |-> <<"+","I","n","f">>, stored |-> Infinity],
     [token |-> <<"I","n","f">>, stored |-> Infinity],
     [token |-> <<"-","I","n","f">>, stored |-> NegInfinity],
     [token |-> <<".">>, stored |-> Num(0, 0)],
     [token |-> <<"-">>, stored |-> Num(0, 0)],
     [token |-> <<"e","5">>, stored |-> Num(0, 0)],
     [token |-> <<"+","I","n","f","f">>, stored |-> Num(0, 0)],
     [token |-> <<"-",".","5">>, stored |-> Num(-5, -1)],
     [token |-> <<"1","e","2">>, stored |-> Num(1, 2)],
     [token |-> <<"3",".">>, stored |-> Num(3, 0)],
     [token |-> <<"1","e">>, stored |-> Num(1, 0)]}

tokenLine(vt) == <<"m", " ">> \o vt.token

TokenLines == {tokenLine(vt) : vt \in ValueTokens}

RECURSIVE joinLines(_)
joinLines(lines) ==
    IF Len(lines) = 0 THEN <<>>
    ELSE IF Len(lines) = 1 THEN lines[1]
    ELSE lines[1] \o <<LF>> \o joinLines(Tail(lines))

PoolTexts == {joinLines(ls) : ls \in SeqsUpTo(LinePool, MaxLines) \ {<<>>}}

ParseInputs == GivenLines \cup PoolTexts \cup TokenLines

Fresh == rawInput = <<>> /\ metricsText = <<>>

\* Each text is parsed by both parsers: pasted and parsed by the button, or
\* handed to ExplorerDashboard.
NextParse ==
    \/ \E t \in ParseInputs : Fresh /\ SetRawInput(t)
    \/ CanAppend /\ rawInput # <<>> /\ handleManualParse
    \/ \E t \in ParseInputs : Fresh /\ RenderExplorer(t)

SpecParse == Init /\ [][NextParse]_vars

\* ------------------------------------------- distribution engine inputs
\* An exposition line for a sample with integer value n and the labels
\* pairs, a sequence of <<key, value>>.
RECURSIVE labelPairs(_)
labelPairs(pairs) ==
    IF pairs = <<>> THEN <<>>
    ELSE Head(pairs)[1] \o <<"=", QUOTE>> \o escapeLabelValue(Head(pairs)[2]) \o <<QUOTE>>
         \o (IF Len(pairs) > 1 THEN <<",">> ELSE <<>>) \o labelPairs(Tail(pairs))

sampleLine(name, pairs, n) ==
    name \o (IF pairs = <<>> THEN <<>> ELSE <<"{">> \o labelPairs(pairs) \o <<"}">>)
    \o <<" ">> \o (IF n < 0 THEN <<"-">> \o IntToDigits(-n) ELSE IntToDigits(n))

\* The largest count of a bucket sample.
MaxCount == 2

\* Bucket lines of histogram h for one group: for each boundary of les, in
\* order, either no line or a line with the count counts[k].
Absent == MaxCount + 1
LeSpellings == <<<<"1">>, <<"2">>, <<"3">>, <<"+","I","n","f">>>>

RECURSIVE bucketLines(_, _, _)
bucketLines(groupPairs, counts, k) ==
    IF k > Len(LeSpellings) THEN <<>>
    ELSE (IF counts[k] = Absent THEN <<>>
          ELSE <<sampleLine(<<"h","_","b","u","c","k","e","t">>, <<(<<<<"l","e">>, LeSpellings[k]>>)>> \o groupPairs, counts[k])>>)
         \o bucketLines(groupPairs, counts, k + 1)

\* Group a carries every combination of boundaries and counts (cumulative
\* counts that fall are among them); the second group is absent, carries a
\* boundary group a may lack, is a whole histogram, or has no g label.
GroupACounts == [1..Len(LeSpellings) -> 0..Absent]

SecondGroups ==
    {<<>>,
     bucketLines(<<(<<<<"g">>, <<"b">>>>)>>, <<Absent, 1, Absent, Absent>>, 1),
     bucketLines(<<(<<<<"g">>, <<"b">>>>)>>, <<1, 2, 2, 2>>, 1),
     bucketLines(<<>>, <<1, Absent, Absent, Absent>>, 1)}

HistogramTexts ==
    {joinLines(bucketLines(<<(<<<<"g">>, <<"a">>>>)>>, c, 1) \o second) :
        c \in GroupACounts, second \in SecondGroups}

\* Samples of the counter c: up to two samples of group a, one of group b
\* and one without the label g, each with a value up to MaxCount; the order
\* of the lines is that of the samples.
CounterLabels == <<(<<(<<<<"g">>, <<"a">>>>)>>), (<<(<<<<"g">>, <<"b">>>>)>>), <<>>, (<<(<<<<"g">>, <<"a">>>>)>>)>>

RECURSIVE counterLines(_, _)
counterLines(values, k) ==
    IF k > Len(CounterLabels) THEN <<>>
    ELSE (IF values[k] = Absent THEN <<>>
          ELSE <<sampleLine(<<"c">>, CounterLabels[k], values[k])>>)
         \o counterLines(values, k + 1)

CounterTexts ==
    {joinLines(counterLines(v, 1)) : v \in [1..Len(CounterLabels) -> 0..Absent]}

\* Samples of the summary s: the 0.9 quantile of group a, the median of
\* groups a to e, each with one of the values of SummaryValues, the median
\* of group f and the 0.9 quantile of group h.
SummaryGroupNames == <<"a", "b", "c", "d", "e">>
SummaryValues == {-2, -1, 1, 2}

summaryLine(g, q, n) ==
    sampleLine(<<"s">>, <<(<<(<<"g">>), <<g>>>>), (<<(<<"q","u","a","n","t","i","l","e">>), q>>)>>, n)

SummaryTexts ==
    {joinLines(<<summaryLine("a", <<"0",".","9">>, 2)>>
               \o [k \in 1..Len(SummaryGroupNames) |->
                     summaryLine(SummaryGroupNames[k], <<"0",".","5">>, v[k])]
               \o <<summaryLine("f", <<"0",".","5">>, 1), summaryLine("h", <<"0",".","9">>, 1)>>) :
        v \in [1..Len(SummaryGroupNames) -> SummaryValues]}

\* Samples of the summary w with its _sum and _count series: the median of
\* some of the groups a, b and of the samples without the label g, then for
\* each of the groups a and b either no sample or a sample with a value up to
\* MaxCount of w_sum and of w_count, and in one pattern a second sample of
\* each for group a.
WidgetQuantiles ==
    {<<sampleLine(<<"w">>, <<(<<<<"g">>, <<"a">>>>), (<<<<"q","u","a","n","t","i","l","e">>, <<"0",".","5">>>>)>>, 1)>>,
     <<sampleLine(<<"w">>, <<(<<<<"g">>, <<"b">>>>), (<<<<"q","u","a","n","t","i","l","e">>, <<"0",".","5">>>>)>>, 1)>>,
     <<sampleLine(<<"w">>, <<(<<<<"g">>, <<"a">>>>), (<<<<"q","u","a","n","t","i","l","e">>, <<"0",".","5">>>>)>>, 1),
       sampleLine(<<"w">>, <<(<<<<"g">>, <<"b">>>>), (<<<<"q","u","a","n","t","i","l","e">>, <<"0",".","9">>>>)>>, 2),
       sampleLine(<<"w","_","s","u","m">>, <<(<<<<"g">>, <<"a">>>>)>>, 1),
       sampleLine(<<"w","_","c","o","u","n","t">>, <<(<<<<"g">>, <<"a">>>>)>>, 1)>>,
     <<sampleLine(<<"w">>, <<(<<<<"g">>, <<"a">>>>), (<<<<"q","u","a","n","t","i","l","e">>, <<"0",".","5">>>>)>>, 0),
       sampleLine(<<"w">>, <<(<<<<"q","u","a","n","t","i","l","e">>, <<"0",".","5">>>>)>>, 1)>>}

WidgetSeries ==
    <<[name |-> <<"w","_","s","u","m">>, g |-> <<"a">>], [name |-> <<"w","_","c","o","u","n","t">>, g |-> <<"a">>],
      [name |-> <<"w","_","s","u","m">>, g |-> <<"b">>], [name |-> <<"w","_","c","o","u","n","t">>, g |-> <<"b">>]>>

RECURSIVE widgetLines(_, _)
widgetLines(values, k) ==
    IF k > Len(WidgetSeries) THEN <<>>
    ELSE (IF values[k] = Absent THEN <<>>
          ELSE <<sampleLine(WidgetSeries[k].name, <<(<<<<"g">>, WidgetSeries[k].g>>)>>, values[k])>>)
         \o widgetLines(values, k + 1)

WidgetTexts ==
    {joinLines(q \o widgetLines(v, 1)) :
        q \in WidgetQuantiles, v \in [1..Len(WidgetSeries) -> 0..Absent]}

\* Bodies of three lines about metric families: the TYPE line, the
\* bucket, sum and count series of histogram h, a summary, a counter with an
\* upper-case name and a histogram whose name holds _bucket twice.
FamilyLines ==
    {<<"#"," ","T","Y","P","E"," ","h"," ","h","i","s","t","o","g","r","a","m">>,
     sampleLine(<<"h","_","b","u","c","k","e","t">>, <<(<<<<"l","e">>, <<"1">>>>)>>, 1),
     sampleLine(<<"h","_","s","u","m">>, <<>>, 1),
     sampleLine(<<"h","_","c","o","u","n","t">>, <<>>, 1),
     sampleLine(<<"s">>, <<(<<<<"q","u","a","n","t","i","l","e">>, <<"0",".","5">>>>)>>, 1),
     sampleLine(<<"B">>, <<>>, 1),
     sampleLine(<<"a","_","b","u","c","k","e","t","_","b","_","b","u","c","k","e","t">>, <<(<<<<"l","e">>, <<"1">>>>)>>, 1)}

FamilyTexts == {joinLines(<<a, b, c>>) : a \in FamilyLines, b \in FamilyLines, c \in FamilyLines}

\* Bucket lines of histogram h whose boundaries are spelled in more than one
\* way: 1 and 1.0, 0.1 and 0.10, next to the boundary 2; a body holds two of
\* the lines.
SpelledLines ==
    {sampleLine(<<"h","_","b","u","c","k","e","t">>, <<(<<<<"l","e">>, <<"1">>>>)>>, 2),
     sampleLine(<<"h","_","b","u","c","k","e","t">>, <<(<<<<"l","e">>, <<"1",".","0">>>>)>>, 1),
     sampleLine(<<"h","_","b","u","c","k","e","t">>, <<(<<<<"l","e">>, <<"0",".","1">>>>)>>, 2),
     sampleLine(<<"h","_","b","u","c","k","e","t">>, <<(<<<<"l","e">>, <<"0",".","1","0">>>>), (<<<<"g">>, <<"a">>>>)>>, 1),
     sampleLine(<<"h","_","b","u","c","k","e","t">>, <<(<<<<"l","e">>, <<"2">>>>)>>, 2)}

SpelledTexts == {joinLines(<<a, b>>) : a \in SpelledLines, b \in SpelledLines}

DistTexts ==
    HistogramTexts \cup CounterTexts \cup SummaryTexts \cup WidgetTexts \cup FamilyTexts
        \cup SpelledTexts

\* Each text is parsed into the newest snapshot by the button, or handed to
\* ExplorerDashboard; the views are computed from the parsed snapshot.
NextDist ==
    \/ \E t \in DistTexts : Fresh /\ SetRawInput(t)
    \/ CanAppend /\ rawInput # <<>> /\ handleManualParse
    \/ \E t \in DistTexts : Fresh /\ RenderExplorer(t)

SpecDist == Init /\ [][NextDist]_vars

\* -------------------------------------------------- rate series inputs
\* Bucket lines of the write-latency histogram for one path: boundary
\* RateLes[k] with the count counts[k], no line where the count is -1.
RateLes == <<<<"1">>, <<"2">>, <<"+","I","n","f">>>>

RECURSIVE rateLines(_, _, _)
rateLines(path, counts, k) ==
    IF k > Len(RateLes) THEN <<>>
    ELSE (IF counts[k] < 0 THEN <<>>
          ELSE <<sampleLine(WriteLatencyBucket,
                            <<(<<<<"p","a","t","h">>, path>>), (<<<<"l","e">>, RateLes[k]>>)>>, counts[k])>>)
         \o rateLines(path, counts, k + 1)

\* Response bodies of the endpoint: no metric at all, one boundary before and
\* after 40 requests, whole histograms, counts only in +Inf, all counts 0,
\* and a body whose write series lacks the first boundary next to another
\* path's series.
RateTexts ==
    {EmptyBody,
     joinLines(rateLines(<<"/","w","r","i","t","e">>, <<100, -1, -1>>, 1)),
     joinLines(rateLines(<<"/","w","r","i","t","e">>, <<140, -1, -1>>, 1)),
     joinLines(rateLines(<<"/","a","p","i","/","v","2","/","w","r","i","t","e">>, <<100, 100, 100>>, 1)),
     joinLines(rateLines(<<"/","a","p","i","/","v","2","/","w","r","i","t","e">>, <<140, 150, 160>>, 1)),
     joinLines(rateLines(<<"/","w","r","i","t","e">>, <<0, -1, 3>>, 1)),
     joinLines(rateLines(<<"/","w","r","i","t","e">>, <<0, 0, 0>>, 1)),
     joinLines(rateLines(<<"/","q","u","e","r","y">>, <<5, -1, -1>>, 1)
               \o rateLines(<<"/","w","r","i","t","e">>, <<-1, 150, -1>>, 1))}

\* Bodies that differ in the metric names only: one counter each, so every
\* classification has the same three list lengths.
RenamedTexts == {joinLines(<<sampleLine(<<"c">>, <<>>, 1)>>), joinLines(<<sampleLine(<<"B">>, <<>>, 1)>>)}

\* The clock is read up to HorizonMs; time passes by a millisecond (Tick) or
\* by two seconds.
HorizonMs == 2000
ElapseSteps == {2000}

\* Polling, one cycle at a time, each attempt succeeding with one of the
\* bodies, while time passes.
NextRate ==
    \/ ~polling /\ TogglePolling
    \/ Busy(cycles) = {} /\ IntervalTick
    \/ \E i \in Slots : \E t \in RateTexts \cup RenamedTexts :
          Len(metricsHistory) <= MaxHistory /\ AttemptSucceed(i, t)
    \/ Tick
    \/ \E ms \in ElapseSteps : now + ms <= HorizonMs /\ Elapse(ms)

SpecRate == Init /\ [][NextRate]_vars

\* ================================================================ claims
\* The steps that append to the history.
PollAppend == \E i \in Slots : AttemptSucceed(i, EmptyBody)
AnyAppend == PollAppend \/ handleManualParse

\* C1: the history never holds more than 60 entries; every append puts the
\* new snapshot last and keeps the entries before it in their order, and an
\* append to a history of exactly 60 entries drops exactly the oldest one.
C1_HistoryCapFifo ==
    [][ /\ Len(metricsHistory') <= 60
        /\ AnyAppend =>
             LET n == Len(metricsHistory')
             IN /\ n >= 1
                /\ metricsHistory'[n].timestamp = now
                /\ IF Len(metricsHistory) = 60
                   THEN /\ n = 60
                        /\ SubSeq(metricsHistory', 1, 59) = SubSeq(metricsHistory, 2, 60)
                   ELSE SubSeq(metricsHistory', 1, n - 1) = metricsHistory ]_vars

\* C1 witness: a full history spanning two clock readings, while polling.
C1_Witness ==
    /\ Len(metricsHistory) = 60
    /\ metricsHistory[1].timestamp < metricsHistory[60].timestamp
    /\ polling

\* C2: while polling is enabled at most one fetchMetrics cycle exists.
C2_SingleCycle == polling => Cardinality(Busy(cycles)) <= 1

\* C3: the timestamps of the history are non-decreasing from oldest to newest.
C3_TimestampsMonotone ==
    \A k \in 1..(Len(metricsHistory) - 1) :
        metricsHistory[k].timestamp <= metricsHistory[k + 1].timestamp

\* C3 witness: a history whose timestamps rise, with a poll cycle in flight.
C3_Witness ==
    /\ Len(metricsHistory) >= 3
    /\ \E k \in 1..(Len(metricsHistory) - 1) :
          metricsHistory[k].timestamp < metricsHistory[k + 1].timestamp
    /\ Busy(cycles) # {}

\* C4: an attempt aborted by its timeout appends nothing, and while polling
\* is disabled a cycle still in flight makes no further attempt and appends
\* nothing.
C4_CancelledContributesNothing ==
    [][ \A i \in Slots :
          /\ AttemptTimeout(i) => metricsHistory' = metricsHistory
          /\ (~polling /\ cycles[i] # Idle) =>
                /\ cycles'[i].attempt <= cycles[i].attempt
                /\ cycles'[i] # cycles[i] => metricsHistory' = metricsHistory ]_vars

\* The steps a cycle has left: two per attempt still to make, less one while
\* the attempt is in flight.
Rank(c) == 2 * (5 - c.attempt) + (IF c.phase = "fetching" THEN 1 ELSE 0)

\* C5: a cycle makes at most 5 attempts and every step brings it nearer its
\* end; it ends at the first success; after failed attempt a <= 4 it waits
\* 100 * 2^(a-1) ms and then makes attempt a+1; the 5th failure ends it
\* without a wait; an attempt in flight can always be ended by its timeout
\* and a wait by its timer.
C5_RetryLoop ==
    /\ [](\A i \in Slots :
            /\ cycles[i].attempt <= 5
            /\ cycles[i].phase = "fetching" => ENABLED AttemptTimeout(i)
            /\ cycles[i].phase = "backoff" =>
                  /\ cycles[i].attempt \in 1..4
                  /\ cycles[i].delay = 100 * 2^(cycles[i].attempt - 1)
                  /\ ENABLED BackoffElapsed(i))
    /\ [][ \A i \in Slots :
             /\ AttemptSucceed(i, EmptyBody) => cycles'[i] = Idle
             /\ \A e \in PollErrors \cup {AbortError} :
                   AttemptFail(i, e) =>
                      IF cycles[i].attempt <= 4
                      THEN /\ cycles'[i].phase = "backoff"
                           /\ cycles'[i].attempt = cycles[i].attempt
                      ELSE cycles'[i] = Idle
             /\ BackoffElapsed(i) =>
                   /\ cycles'[i].phase = "fetching"
                   /\ cycles'[i].attempt = cycles[i].attempt + 1
             /\ (cycles[i] # Idle /\ cycles'[i] # cycles[i]) =>
                   \/ cycles'[i] = Idle
                   \/ Rank(cycles'[i]) < Rank(cycles[i]) ]_vars

\* C5 witness: the wait after the 4th failed attempt, 800 ms.
C5_Witness ==
    \E i \in Slots :
        cycles[i].phase = "backoff" /\ cycles[i].attempt = 4 /\ cycles[i].delay = 800

\* What the user is shown for each thrown error of the controller.
ShownMessage(e) ==
    IF e.name = "AbortError" THEN "Request timed out"
    ELSE IF e.name = "TypeError"
         THEN "Network request failed (likely CORS or connection issue)"
    ELSE e.message

ShownKind(e) ==
    IF e.name = "AbortError" THEN "timeout"
    ELSE IF e.name = "TypeError" THEN "cors"
    ELSE "http"

\* C6: the 5th failure of a cycle sets error to the message of that failure
\* (after 5 attempts) and errorType to its kind, sets polling to false and
\* clears the interval; no cycle is started while polling stays false.
C6_ExhaustionStopsPolling ==
    [][ /\ \A i \in Slots : \A e \in PollErrors \cup {AbortError} :
             (AttemptFail(i, e) /\ cycles[i].attempt = 5) =>
                /\ error' = <<ShownMessage(e), 5>>
                /\ errorType' = ShownKind(e)
                /\ ~polling'
                /\ ~interval'
        /\ interval' => polling'
        /\ (~polling /\ ~polling') => Busy(cycles') \subseteq Busy(cycles) ]_vars

\* C6 witness: polling stopped by an exhausted cycle whose last failure was
\* a non-2xx status, another cycle still waiting after a timeout.
C6_Witness ==
    /\ ~polling /\ ~interval
    /\ error = <<"HTTP error! status: 500", 5>>
    /\ errorType = "http"
    /\ \E i \in Slots : cycles[i].lastErrorType = "timeout"

\* C7: the steps of a cycle other than its 5th failure (a success, an earlier
\* failure, the end of a wait) set neither error nor errorType to a non-null
\* value and leave polling as it is; error becomes non-null only by a 5th
\* failure.
C7_ErrorOnlyOnExhaustion ==
    [][ /\ \A i \in Slots :
             (\/ AttemptSucceed(i, EmptyBody)
              \/ BackoffElapsed(i)
              \/ \E e \in PollErrors \cup {AbortError} :
                    AttemptFail(i, e) /\ cycles[i].attempt < 5) =>
                /\ error' \in {error, NoError}
                /\ errorType' \in {errorType, Null}
                /\ polling' = polling
        /\ (error' # error /\ error' # NoError) =>
              \E i \in Slots :
                 /\ cycles[i].phase = "fetching" /\ cycles[i].attempt = 5
                 /\ cycles'[i] = Idle
        /\ (errorType' # errorType /\ errorType' # Null) => error' # NoError ]_vars

\* C7 witness: a retry in flight after failures, nothing shown, polling on,
\* and room in the explored history for its success.
C7_Witness ==
    /\ polling /\ error = NoError /\ errorType = Null /\ CanAppend
    /\ \E i \in Slots :
          /\ cycles[i].phase = "fetching" /\ cycles[i].attempt = 4
          /\ cycles[i].lastErrorType = "http"

\* The kind the precedence gives a thrown error.
IsAbort(e) == e.name = "AbortError"
IsLowLevel(e) ==
    e.name = "TypeError" \/ e.message \in {"Failed to fetch", "HTTP error! failed to fetch"}
IsStatus(e) == e.message \in {"HTTP error! status: 500", "HTTP error! failed to fetch"}

KindByPrecedence(e, kind) ==
    /\ kind \in {"timeout", "cors", "http", "network"}
    /\ IsAbort(e) => kind = "timeout"
    /\ (~IsAbort(e) /\ IsLowLevel(e)) => kind = "cors"
    /\ (~IsAbort(e) /\ ~IsLowLevel(e) /\ IsStatus(e)) => kind = "http"
    /\ (~IsAbort(e) /\ ~IsLowLevel(e) /\ ~IsStatus(e)) => kind = "network"

\* C8: every failed attempt gets exactly one kind: timeout for an abort,
\* else cors for a TypeError or a "failed to fetch" message, else http for an
\* HTTP error status, else network.
C8_FailureClassification ==
    [][ \A i \in Slots : \A e \in Errors :
          AttemptFail(i, e) =>
             KindByPrecedence(e, IF cycles[i].attempt < 5
                                 THEN cycles'[i].lastErrorType
                                 ELSE errorType') ]_vars

\* C8 witness: all retries used up, the last failure of the default kind.
C8_Witness ==
    /\ errorType = "network"
    /\ error = <<"URI malformed", 5>>

\* The snapshot of the last manual parse.
LastMetrics == metricsHistory[Len(metricsHistory)].metrics

\* The snapshot holding exactly the sample g.
OnlySample(g) ==
    <<[name |-> g.name, samples |-> <<[labels |-> g.labels, value |-> g.value]>>]>>

\* C9: a data line built from a name, a label map and a value, the label
\* values escaped by the exposition rules, parses to exactly that name, label
\* map and value, for every label value over quote, backslash, newline, n,
\* comma and closing brace.
C9_LabelRoundTrip ==
    \A g \in Given :
        /\ metricsText = formatLine(g) => explorer.metrics = OnlySample(g)
        /\ (rawInput = formatLine(g) /\ metricsHistory # <<>>) =>
              LastMetrics = OnlySample(g)

removeAt(q, k) == SubSeq(q, 1, k - 1) \o SubSeq(q, k + 1, Len(q))

\* A line that matches no rule of the grammar: not blank, no HELP or TYPE
\* directive, no comment, no data line.
MalformedLine(line) ==
    LET t == trim(line)
    IN /\ t # <<>>
       /\ t[1] # "#"
       /\ ~matchDataRegex(t).ok

\* C10: a line that matches no grammar rule adds nothing, and the other
\* lines are parsed as if it were absent: the result for a text equals the
\* result for the text without that line.
C10_MalformedLineSkipped ==
    /\ LET lines == split(metricsText, LF)
       IN \A k \in 1..Len(lines) :
             MalformedLine(lines[k]) =>
                explorer = explorerMemo(joinLines(removeAt(lines, k)))
    /\ metricsHistory # <<>> =>
          LET lines == split(rawInput, LF)
          IN \A k \in 1..Len(lines) :
                MalformedLine(lines[k]) =>
                   LastMetrics = parsePrometheusMetrics(joinLines(removeAt(lines, k)))

\* C10 witness: the text starts with the unterminated label block w{bad, and
\* samples of two metrics were parsed from the lines after it.
C10_Witness ==
    LET lines == split(metricsText, LF)
    IN /\ Len(lines) = 3
       /\ lines[1] = <<"w", "{", "b", "a", "d">>
       /\ Len(explorer.metrics) = 2

\* The values of the samples of a snapshot.
ValuesOf(metrics) ==
    UNION {{metrics[i].samples[j].value : j \in 1..Len(metrics[i].samples)} :
             i \in 1..Len(metrics)}

\* The snapshot holding the one sample of metric m with no labels.
BareSample(v) == <<[name |-> <<"m">>, samples |-> <<[labels |-> EmptyLabels, value |-> v]>>]>>

\* C11: no parsed sample has the value NaN: a token that is no number is
\* stored as +Infinity for +Inf and Inf, as -Infinity for -Inf and as 0
\* otherwise (the token NaN included); a numeric token keeps its value.
C11_NoNaNValue ==
    /\ NaN \notin ValuesOf(explorer.metrics)
    /\ \A k \in 1..Len(metricsHistory) : NaN \notin ValuesOf(metricsHistory[k].metrics)
    /\ \A vt \in ValueTokens :
          /\ metricsText = tokenLine(vt) => explorer.metrics = BareSample(vt.stored)
          /\ (rawInput = tokenLine(vt) /\ metricsHistory # <<>>) =>
                LastMetrics = BareSample(vt.stored)

\* C11 witness: the line m NaN was parsed to a sample of value 0.
C11_Witness ==
    /\ metricsText = <<"m", " ", "N", "a", "N">>
    /\ explorer.metrics = BareSample(Num(0, 0))

\* The samples one line alone gives the metric name.
LineSamples(line, name) ==
    LET alone == parsePrometheusMetrics(line)
    IN IF alone # <<>> /\ alone[1].name = name THEN alone[1].samples ELSE <<>>

\* The samples of name, line after line.
RECURSIVE SamplesInOrder(_, _)
SamplesInOrder(lines, name) ==
    IF lines = <<>> THEN <<>>
    ELSE LineSamples(Head(lines), name) \o SamplesInOrder(Tail(lines), name)

\* A snapshot of text: distinct names, each with at least one sample, the
\* samples of a name in the order of their lines.
WellFormedSnapshot(metrics, text) ==
    /\ \A i, j \in 1..Len(metrics) : metrics[i].name = metrics[j].name => i = j
    /\ \A i \in 1..Len(metrics) :
          /\ Len(metrics[i].samples) >= 1
          /\ metrics[i].samples = SamplesInOrder(split(text, LF), metrics[i].name)

\* C12: in every snapshot parse returns, each metric name maps to at least
\* one sample and the samples of a name are in the order of their lines.
C12_SamplesInLineOrder ==
    /\ WellFormedSnapshot(explorer.metrics, metricsText)
    /\ \A k \in 1..Len(metricsHistory) :
          WellFormedSnapshot(metricsHistory[k].metrics, rawInput)

\* C12 witness: two metrics parsed, the first with two different samples
\* from lines that have a line of the other metric between them.
C12_Witness ==
    LET lines == split(metricsText, LF)
    IN /\ Len(lines) = 3
       /\ lines[2] = <<" ", "n", " ", "3">>
       /\ Len(explorer.metrics) = 2
       /\ Len(explorer.metrics[1].samples) = 2
       /\ explorer.metrics[1].samples[1] # explorer.metrics[1].samples[2]


\* ---- the histogram views against the bucket samples themselves
\* The ways of grouping explored: none, by label g, by a label no sample has.
GroupBys == {Null, <<"g">>, <<"z">>}

\* The group a sample is counted in.
GroupOf(labels, groupBy) ==
    IF groupBy = Null THEN <<"A","l","l">>
    ELSE IF groupBy \in DOMAIN labels /\ labels[groupBy] # <<>> THEN labels[groupBy]
    ELSE <<"O","t","h","e","r">>

\* The bucket samples of histogram h that carry an le label.
BucketSamples(metrics) ==
    LET series == getMetric(metrics, <<"h","_","b","u","c","k","e","t">>)
    IN {j \in 1..Len(series) :
          <<"l","e">> \in DOMAIN series[j].labels /\ series[j].labels[<<"l","e">>] # <<>>}

RECURSIVE SumOfValues(_, _)
SumOfValues(series, js) ==
    IF js = {} THEN Zero
    ELSE LET j == CHOOSE x \in js : TRUE
         IN plus(quantity(series[j].value), SumOfValues(series, js \ {j}))

\* The cumulative count of group gk at boundary le (a number).
CumulativeAt(metrics, groupBy, gk, le) ==
    LET series == getMetric(metrics, <<"h","_","b","u","c","k","e","t">>)
    IN SumOfValues(series,
          {j \in BucketSamples(metrics) :
              /\ GroupOf(series[j].labels, groupBy) = gk
              /\ leNumber(series[j].labels[<<"l","e">>]) = le})

\* The finite boundaries group gk carries.
FiniteLes(metrics, groupBy, gk) ==
    LET series == getMetric(metrics, <<"h","_","b","u","c","k","e","t">>)
    IN {leNumber(series[j].labels[<<"l","e">>]) :
          j \in {i \in BucketSamples(metrics) :
                   GroupOf(series[i].labels, groupBy) = gk}} \ {Infinity}

LargestLe(les) == CHOOSE l \in les : \A o \in les : ~numberLess(l, o)

RECURSIVE SumOfColumn(_, _)
SumOfColumn(rows, gk) ==
    IF rows = <<>> THEN Zero
    ELSE plus(IF Head(rows).le = Infinity THEN Zero ELSE Head(rows).cols[gk],
              SumOfColumn(Tail(rows), gk))

\* Every value of the view is >= 0, and for each group with a finite
\* boundary the finite rows add up to its count at its largest one.
ExclusiveSumsUp(view, metrics, groupBy) ==
    /\ \A j \in 1..Len(view.data) : \A gk \in DOMAIN view.data[j].cols :
          ~less(view.data[j].cols[gk], Zero)
    /\ \A gk \in Range(view.keys) :
          LET les == FiniteLes(metrics, groupBy, gk)
          IN les # {} =>
                SumOfColumn(view.data, gk)
                   = CumulativeAt(metrics, groupBy, gk, LargestLe(les))

\* C13: in the histogram view of the newest snapshot and in the histogram
\* widget, for every grouping, every exclusive value is >= 0 and per group
\* the exclusive values of the finite rows add up to the group's cumulative
\* count at its largest finite boundary.
C13_ExclusiveReconstruction ==
    \A groupBy \in GroupBys :
        /\ metricsHistory # <<>> =>
              ExclusiveSumsUp(computeHistogramData(LastMetrics, <<"h">>, groupBy),
                              LastMetrics, groupBy)
        /\ hasMetric(explorer.metrics, <<"h","_","b","u","c","k","e","t">>) =>
              ExclusiveSumsUp(widgetHistogram(explorer.metrics, <<"h">>, groupBy),
                              explorer.metrics, groupBy)


\* Every boundary of histogram h in the snapshot, as numbers.
AllLes(metrics) ==
    LET series == getMetric(metrics, <<"h","_","b","u","c","k","e","t">>)
    IN {leNumber(series[j].labels[<<"l","e">>]) : j \in BucketSamples(metrics)}

\* The groups of histogram h in the snapshot.
AllGroups(metrics, groupBy) ==
    LET series == getMetric(metrics, <<"h","_","b","u","c","k","e","t">>)
    IN {GroupOf(series[j].labels, groupBy) : j \in BucketSamples(metrics)}

\* A group's exclusive value in the bucket ending at le: its count there less
\* its count at the boundary below, not below 0.
ExclusiveOf(metrics, groupBy, gk, le) ==
    LET below == {l \in AllLes(metrics) : numberLess(l, le)}
        prev == IF below = {} THEN Zero
                ELSE CumulativeAt(metrics, groupBy, gk, LargestLe(below))
    IN max0(minus(CumulativeAt(metrics, groupBy, gk, le), prev))

\* The rows are the buckets with a positive exclusive value, each once, in
\* ascending order of le, with every group's exclusive value.
RowsArePositiveBuckets(view, metrics, groupBy) ==
    /\ \A j \in 1..(Len(view.data) - 1) :
          numberLess(view.data[j].le, view.data[j + 1].le)
    /\ {view.data[j].le : j \in 1..Len(view.data)}
          = {le \in AllLes(metrics) :
                \E gk \in AllGroups(metrics, groupBy) :
                   less(Zero, ExclusiveOf(metrics, groupBy, gk, le))}
    /\ Range(view.keys) = AllGroups(metrics, groupBy)
    /\ \A j \in 1..Len(view.data) :
          /\ DOMAIN view.data[j].cols = AllGroups(metrics, groupBy)
          /\ \A gk \in AllGroups(metrics, groupBy) :
                view.data[j].cols[gk] = ExclusiveOf(metrics, groupBy, gk, view.data[j].le)

\* C14: the rows of computeHistogramData are exactly the buckets in which
\* some group has an exclusive value > 0, in ascending le order with +Inf
\* last; a +Inf bucket with a positive exclusive value is among them.
C14_HistogramRows ==
    \A groupBy \in GroupBys :
        metricsHistory # <<>> =>
           RowsArePositiveBuckets(computeHistogramData(LastMetrics, <<"h">>, groupBy),
                                  LastMetrics, groupBy)

\* Every le label of the newest snapshot is spelled as its number prints.
CanonicalLes ==
    \A j \in BucketSamples(LastMetrics) :
        LET l == getMetric(LastMetrics, <<"h","_","b","u","c","k","e","t">>)[j].labels[<<"l","e">>]
        IN leString(leNumber(l)) = l

\* The same on snapshots whose le labels are spelled as the numbers print.
HistogramRows_Canonical ==
    \A groupBy \in GroupBys :
        (metricsHistory # <<>> /\ CanonicalLes) =>
           RowsArePositiveBuckets(computeHistogramData(LastMetrics, <<"h">>, groupBy),
                                  LastMetrics, groupBy)

\* C14 witness: grouped by g, the view of a snapshot with four boundaries
\* has fewer rows than boundaries and ends with the +Inf row.
C14_Witness ==
    /\ metricsHistory # <<>>
    /\ Cardinality(AllLes(LastMetrics)) = 4
    /\ LET view == computeHistogramData(LastMetrics, <<"h">>, <<"g">>)
       IN /\ Len(view.data) \in 2..3
          /\ view.data[Len(view.data)].le = Infinity
          /\ Len(view.keys) = 2


\* ---- the rate series against the bucket samples themselves
\* C15: computeRateDistribution returns no row when the current snapshot is
\* absent, when the previous snapshot is absent, or when the elapsed seconds
\* are <= 0; the rate series is empty while the history holds fewer than two
\* snapshots or its last two timestamps are equal.
C15_RateEmptyWithoutElapsedTime ==
    /\ computeRateDistribution(NoSnapshot, prevSnapshot, WriteLatencyBucket, WriteFilter,
                               [n |-> 2, d |-> 1]) = <<>>
    /\ computeRateDistribution(currentSnapshot, NoSnapshot, WriteLatencyBucket, WriteFilter,
                               [n |-> 2, d |-> 1]) = <<>>
    /\ \A elapsed \in {Zero, [n |-> -1, d |-> 1000], [n |-> -2, d |-> 1]} :
          computeRateDistribution(currentSnapshot, prevSnapshot, WriteLatencyBucket,
                                  WriteFilter, elapsed) = <<>>
    /\ Len(metricsHistory) < 2 => writeLatencyRate = <<>>
    /\ (/\ Len(metricsHistory) >= 2
        /\ metricsHistory[Len(metricsHistory)].timestamp
              = metricsHistory[Len(metricsHistory) - 1].timestamp)
          => writeLatencyRate = <<>>

\* The write-latency bucket samples of a snapshot that carry an le label.
WritePaths == {<<"/","w","r","i","t","e">>, <<"/","a","p","i","/","v","2","/","w","r","i","t","e">>}

WriteSamples(metrics) ==
    LET series == getMetric(metrics, WriteLatencyBucket)
    IN {j \in 1..Len(series) :
          /\ <<"p","a","t","h">> \in DOMAIN series[j].labels
          /\ series[j].labels[<<"p","a","t","h">>] \in WritePaths
          /\ <<"l","e">> \in DOMAIN series[j].labels
          /\ series[j].labels[<<"l","e">>] # <<>>}

WriteLes(metrics) ==
    LET series == getMetric(metrics, WriteLatencyBucket)
    IN {leNumber(series[j].labels[<<"l","e">>]) : j \in WriteSamples(metrics)}

\* The cumulative write count of a snapshot at boundary le, 0 when absent.
WriteCountAt(metrics, le) ==
    LET series == getMetric(metrics, WriteLatencyBucket)
    IN SumOfValues(series,
          {j \in WriteSamples(metrics) : leNumber(series[j].labels[<<"l","e">>]) = le})

\* C15 witness: two snapshots read at the same instant, the second with 40
\* more requests than the first, and no rate row.
C15_Witness ==
    /\ Len(metricsHistory) = 2
    /\ metricsHistory[1].timestamp = metricsHistory[2].timestamp
    /\ WriteCountAt(metricsHistory[1].metrics, Num(1, 0)) = [n |-> 100, d |-> 1]
    /\ WriteCountAt(metricsHistory[2].metrics, Num(1, 0)) = [n |-> 140, d |-> 1]
    /\ writeLatencyRate = <<>>

\* The snapshot before the newest.
PrevMetrics == metricsHistory[Len(metricsHistory) - 1].metrics

\* max(0, (curr - prev) / elapsed) at boundary le.
RateAt(curr, prev, elapsed, le) ==
    max0(over(minus(WriteCountAt(curr, le), WriteCountAt(prev, le)), elapsed))

\* max(0, rate - rate at the boundary below), the rate below the first
\* boundary being 0.
ExclusiveRateAt(curr, prev, elapsed, le) ==
    LET below == {l \in WriteLes(curr) : numberLess(l, le)}
    IN max0(minus(RateAt(curr, prev, elapsed, le),
                  IF below = {} THEN Zero
                  ELSE RateAt(curr, prev, elapsed, LargestLe(below))))

\* C16: with two snapshots and elapsed seconds > 0 the rate series has one
\* row for each finite boundary of the current snapshot whose exclusive rate
\* is above 0.001, in ascending order, carrying that exclusive rate; counts
\* 100 then 140 at le 1, two seconds apart, give the one row 20.
C16_RateRows ==
    (Len(metricsHistory) >= 2 /\ less(Zero, timeDiff)) =>
        /\ \A j \in 1..(Len(writeLatencyRate) - 1) :
              numberLess(writeLatencyRate[j].le, writeLatencyRate[j + 1].le)
        /\ {writeLatencyRate[j].le : j \in 1..Len(writeLatencyRate)}
              = {le \in WriteLes(LastMetrics) \ {Infinity} :
                    less(RateEpsilon,
                         ExclusiveRateAt(LastMetrics, PrevMetrics, timeDiff, le))}
        /\ \A j \in 1..Len(writeLatencyRate) :
              writeLatencyRate[j].count
                 = ExclusiveRateAt(LastMetrics, PrevMetrics, timeDiff,
                                   writeLatencyRate[j].le)
        /\ (/\ timeDiff = [n |-> 2, d |-> 1]
            /\ WriteLes(LastMetrics) = {Num(1, 0)}
            /\ WriteCountAt(PrevMetrics, Num(1, 0)) = [n |-> 100, d |-> 1]
            /\ WriteCountAt(LastMetrics, Num(1, 0)) = [n |-> 140, d |-> 1])
              => /\ Len(writeLatencyRate) = 1
                 /\ writeLatencyRate[1].count = [n |-> 20, d |-> 1]

\* C16 witness: whole histograms two seconds apart with 40, 50 and 60 more
\* requests: the rows 20 and 5.
C16_Witness ==
    /\ Len(metricsHistory) = 2
    /\ timeDiff = [n |-> 2, d |-> 1]
    /\ Len(writeLatencyRate) = 2
    /\ writeLatencyRate[1].count = [n |-> 20, d |-> 1]
    /\ writeLatencyRate[2].count = [n |-> 5, d |-> 1]

\* A snapshot's exclusive write count in the bucket ending at le.
ExclusiveCountAt(metrics, le) ==
    LET below == {l \in WriteLes(metrics) : numberLess(l, le)}
    IN max0(minus(WriteCountAt(metrics, le),
                  IF below = {} THEN Zero ELSE WriteCountAt(metrics, LargestLe(below))))

\* The rows are the cumulative exclusive breakdown of the current snapshot.
IsCumulativeBreakdown(rows) ==
    /\ \A j \in 1..(Len(rows) - 1) : numberLess(rows[j].le, rows[j + 1].le)
    /\ {rows[j].le : j \in 1..Len(rows)}
          = {le \in WriteLes(LastMetrics) \ {Infinity} :
                less(Zero, ExclusiveCountAt(LastMetrics, le))}
    /\ \A j \in 1..Len(rows) :
          rows[j].count = ExclusiveCountAt(LastMetrics, rows[j].le)

\* C17: the write-latency breakdown shown is the rate series when that has
\* rows, otherwise the cumulative exclusive breakdown of the current
\* snapshot; it is empty only when the current snapshot has no write-latency
\* bucket sample.
C17_RateWithCumulativeFallback ==
    /\ writeLatencyRate # <<>> => writeLatencyDist = writeLatencyRate
    /\ (writeLatencyRate = <<>> /\ metricsHistory # <<>>) =>
          IsCumulativeBreakdown(writeLatencyDist)
    /\ writeLatencyDist = <<>> =>
          (metricsHistory = <<>> \/ WriteSamples(LastMetrics) = {})


\* ---- the counter breakdown against the samples themselves
\* The sum of the values of the samples js of metric name.
SumOfSamples(metrics, name, js) == SumOfValues(getMetric(metrics, name), js)

\* The samples of metric name counted in group gk.
GroupSamples(metrics, name, groupBy, gk) ==
    {j \in 1..Len(getMetric(metrics, name)) :
        GroupOf(getMetric(metrics, name)[j].labels, groupBy) = gk}

\* One row per group with the sum of the group's samples, in descending
\* order of value.
IsBreakdown(rows, metrics, name, groupBy) ==
    LET series == getMetric(metrics, name)
        groups == {GroupOf(series[j].labels, groupBy) : j \in 1..Len(series)}
    IN /\ {rows[j].name : j \in 1..Len(rows)} = groups
       /\ Len(rows) = Cardinality(groups)
       /\ \A j \in 1..Len(rows) :
             rows[j].value
                = SumOfSamples(metrics, name, GroupSamples(metrics, name, groupBy, rows[j].name))
       /\ \A j \in 1..(Len(rows) - 1) : ~less(rows[j].value, rows[j + 1].value)

RECURSIVE SumOfRows(_)
SumOfRows(rows) ==
    IF rows = <<>> THEN Zero ELSE plus(Head(rows).value, SumOfRows(Tail(rows)))

QuantileSamples(metrics) ==
    {x \in Range(getMetric(metrics, <<"s">>)) : <<"q","u","a","n","t","i","l","e">> \in DOMAIN x.labels}

SummaryGroups(metrics) == {summaryKey(x.labels) : x \in QuantileSamples(metrics)}

\* The largest quantile value observed for group g.
MaxObserved(metrics, g) ==
    LET values == {x.value : x \in {y \in QuantileSamples(metrics) : summaryKey(y.labels) = g}}
    IN CHOOSE v \in values : \A w \in values : ~numberLess(v, w)

\* keys are min(TopSeries, number of groups) distinct groups, none smaller in
\* its largest observed value than a group left out, in descending order of
\* that value.
IsTopByMax(keys, metrics) ==
    LET all == SummaryGroups(metrics)
    IN /\ Len(keys) = (IF Cardinality(all) < TopSeries THEN Cardinality(all) ELSE TopSeries)
       /\ Range(keys) \subseteq all
       /\ Cardinality(Range(keys)) = Len(keys)
       /\ \A g \in Range(keys) : \A h \in all \ Range(keys) :
             ~numberLess(MaxObserved(metrics, g), MaxObserved(metrics, h))
       /\ \A j \in 1..(Len(keys) - 1) :
             ~numberLess(MaxObserved(metrics, keys[j]), MaxObserved(metrics, keys[j + 1]))

HasSummary == metricsHistory # <<>> /\ hasMetric(LastMetrics, <<"s">>)

\* C19: computeSummaryData returns at most 5 group names, exactly the
\* groups with the largest maximum observed quantile value, in descending
\* order of that maximum, and every row has a column for each returned group
\* and for no other group.
C19_SummaryTopGroups ==
    HasSummary =>
       LET chart == computeSummaryData(LastMetrics, <<"s">>)
       IN /\ Len(chart.keys) <= 5
          /\ IsTopByMax(chart.keys, LastMetrics)
          /\ \A j \in 1..Len(chart.data) : DOMAIN chart.data[j].cols = Range(chart.keys)

\* The same with every quantile value of the snapshot at least 0.
SummaryTopGroups_NonNegative ==
    (HasSummary /\ \A x \in QuantileSamples(LastMetrics) : ~numberLess(x.value, Num(0, 0))) =>
       LET chart == computeSummaryData(LastMetrics, <<"s">>)
       IN /\ Len(chart.keys) <= 5
          /\ IsTopByMax(chart.keys, LastMetrics)
          /\ \A j \in 1..Len(chart.data) : DOMAIN chart.data[j].cols = Range(chart.keys)


\* ---- the grouped summary view against the samples themselves
\* The sum of the values of the samples of series name that fall in group gk
\* (0 when the series or the group is absent).
GroupTotal(metrics, name, groupBy, gk) ==
    IF ~hasMetric(metrics, name) THEN Zero
    ELSE SumOfSamples(metrics, name, GroupSamples(metrics, name, groupBy, gk))

\* The average of group gk from the _sum and _count samples of summary w.
GroupAverage(metrics, groupBy, gk) ==
    LET s == GroupTotal(metrics, <<"w","_","s","u","m">>, groupBy, gk)
        c == GroupTotal(metrics, <<"w","_","c","o","u","n","t">>, groupBy, gk)
    IN IF c = Zero THEN Zero ELSE over(s, c)

WidgetGroupBys == {<<"g">>, <<"z">>}

\* C20: in the grouped summary view of computeWidgetData the Avg row holds,
\* for every group column, the sum of the group's _sum samples divided by
\* the sum of its _count samples, and 0 when that count is 0, whichever of
\* the quantile, _sum and _count series mention the group.
C20_GroupedAverage ==
    \A groupBy \in WidgetGroupBys :
        metricsHistory # <<>> =>
           LET view == widgetSummary(LastMetrics, <<"w">>, groupBy)
           IN view.type = "summary-grouped" =>
                 /\ view.data[1].name = <<"A","v","g">>
                 /\ DOMAIN view.data[1].cols = Range(view.keys)
                 /\ \A gKey \in Range(view.keys) :
                       view.data[1].cols[gKey] = GroupAverage(LastMetrics, groupBy, gKey)

\* C20 witness: grouped by g, the columns a and b, group a with the average
\* 3/2 of two _sum and two _count samples, group b mentioned by the quantile
\* and _count series only, with the average 0.
C20_Witness ==
    /\ metricsHistory # <<>>
    /\ LET view == widgetSummary(LastMetrics, <<"w">>, <<"g">>)
       IN /\ view.type = "summary-grouped"
          /\ view.keys = <<<<"a">>, <<"b">>>>
          /\ view.data[1].cols[<<"a">>] = [n |-> 3, d |-> 2]
          /\ view.data[1].cols[<<"b">>] = Zero
          /\ GroupTotal(LastMetrics, <<"w","_","s","u","m">>, <<"g">>, <<"a">>) = [n |-> 3, d |-> 1]
          /\ GroupTotal(LastMetrics, <<"w","_","c","o","u","n","t">>, <<"g">>, <<"b">>) = [n |-> 2, d |-> 1]
          /\ \A x \in Range(getMetric(LastMetrics, <<"w","_","s","u","m">>)) : x.labels[<<"g">>] = <<"a">>


\* ---- discovery and the catalog against the metric names themselves
MetricNames(metrics) == {metrics[j].name : j \in 1..Len(metrics)}

\* b is name without one of its occurrences of _bucket.
IsBaseOf(b, name) ==
    \E k \in 1..(Len(name) - 6) :
        /\ SubSeq(name, k, k + 6) = <<"_","b","u","c","k","e","t">>
        /\ b = SubSeq(name, 1, k - 1) \o SubSeq(name, k + 7, Len(name))

IsSortedSet(list) ==
    /\ Cardinality(Range(list)) = Len(list)
    /\ \A j \in 1..(Len(list) - 1) : stringLess(list[j], list[j + 1])

\* C21: discoverDistributions puts every metric name in exactly one list:
\* a name ending in _bucket in histograms under a base name, another name
\* with a quantile sample in summaries, every other name in counters; each
\* list is without duplicates and in ascending order.
C21_DiscoveryPartition ==
    metricsHistory # <<>> =>
       LET names == MetricNames(LastMetrics)
           buckets == {n \in names : endsWith(n, <<"_","b","u","c","k","e","t">>)}
           quantiled == {n \in names \ buckets : hasQuantile(getMetric(LastMetrics, n))}
           disc == discoverDistributions(LastMetrics)
       IN /\ Range(disc.summaries) = quantiled
          /\ Range(disc.counters) = names \ (buckets \cup quantiled)
          /\ \A n \in buckets : \E b \in Range(disc.histograms) : IsBaseOf(b, n)
          /\ \A b \in Range(disc.histograms) : \E n \in buckets : IsBaseOf(b, n)
          /\ IsSortedSet(disc.histograms)
          /\ IsSortedSet(disc.summaries)
          /\ IsSortedSet(disc.counters)

\* C21 witness: the counter h_sum parsed before the counter B, and a bucket
\* series: B comes first in the counters, h is the one histogram.
C21_Witness ==
    /\ metricsHistory # <<>>
    /\ [j \in 1..Len(LastMetrics) |-> LastMetrics[j].name] = <<<<"h","_","s","u","m">>, <<"B">>, <<"h","_","b","u","c","k","e","t">>>>
    /\ discoverDistributions(LastMetrics).counters = <<<<"B">>, <<"h","_","s","u","m">>>>
    /\ discoverDistributions(LastMetrics).histograms = <<<<"h">>>>

\* C22: for every metric name ending in _bucket the base name of the
\* classifier and of the catalog builder is the name without its trailing
\* _bucket: base name + _bucket is the series name again, which the
\* histogram view looks up.
C22_BaseNameRoundTrip ==
    /\ metricsHistory # <<>> =>
          \A n \in MetricNames(LastMetrics) :
             endsWith(n, <<"_","b","u","c","k","e","t">>) =>
                /\ baseNameOf(n) \o <<"_","b","u","c","k","e","t">> = n
                /\ hasMetric(LastMetrics, baseNameOf(n) \o <<"_","b","u","c","k","e","t">>)
    /\ \A n \in MetricNames(explorer.metrics) :
          endsWith(n, <<"_","b","u","c","k","e","t">>) => catalogBase(explorer.metadata, n) \o <<"_","b","u","c","k","e","t">> = n

CatalogNames(catalog) ==
    [p \in 1..Len(catalog) |-> [j \in 1..Len(catalog[p].metrics) |-> catalog[p].metrics[j].name]]

\* How many entries of the catalog have the name n.
CatalogCount(catalog, n) ==
    Cardinality({<<p, j>> \in UNION {{p} \X (1..Len(catalog[p].metrics)) : p \in 1..Len(catalog)} :
                    catalog[p].metrics[j].name = n})

\* C23: buildMetricsCatalog lists each histogram or summary family once
\* under its base name: no name occurs twice in the catalog and the _bucket,
\* _sum and _count series of a family are no entries of their own, with
\* and without metadata.
C23_CatalogFamiliesOnce ==
    LET metrics == explorer.metrics
        names == MetricNames(metrics)
        catalog == buildMetricsCatalog(explorer.metadata, metrics)
        families == {b \in names \cup {SubSeq(n, 1, Len(n) - 7) : n \in {m \in names : endsWith(m, <<"_","b","u","c","k","e","t">>)}} :
                        \/ b \o <<"_","b","u","c","k","e","t">> \in names
                        \/ b \in names /\ hasQuantile(getMetric(metrics, b))}
    IN /\ \A p \in 1..Len(catalog) : \A j \in 1..Len(catalog[p].metrics) :
             CatalogCount(catalog, catalog[p].metrics[j].name) = 1
       /\ \A b \in families :
             /\ CatalogCount(catalog, b) = 1
             /\ \A suffix \in {<<"_","b","u","c","k","e","t">>, <<"_","s","u","m">>, <<"_","c","o","u","n","t">>} :
                   CatalogCount(catalog, b \o suffix) = 0

\* The same for snapshots whose families are declared by a TYPE line.
CatalogFamiliesOnce_Declared ==
    LET metrics == explorer.metrics
        names == MetricNames(metrics)
        catalog == buildMetricsCatalog(explorer.metadata, metrics)
    IN (hasMeta(explorer.metadata, <<"h">>) /\ <<"a","_","b","u","c","k","e","t","_","b","_","b","u","c","k","e","t">> \notin names) =>
          /\ \A p \in 1..Len(catalog) : \A j \in 1..Len(catalog[p].metrics) :
                CatalogCount(catalog, catalog[p].metrics[j].name) = 1
          /\ \A suffix \in {<<"_","b","u","c","k","e","t">>, <<"_","s","u","m">>, <<"_","c","o","u","n","t">>} :
                CatalogCount(catalog, <<"h">> \o suffix) = 0
          /\ (names \cap {<<"h","_","b","u","c","k","e","t">>, <<"h","_","s","u","m">>, <<"h","_","c","o","u","n","t">>} # {}) => CatalogCount(catalog, <<"h">>) = 1


\* ---- absent metrics
\* Names a view may be asked for.
ProbeNames == {<<"h">>, <<"c">>, <<"s">>, <<"w">>, <<"q">>}

\* C24: for a metric or series that the snapshot lacks, computeHistogramData
\* and computeSummaryData return no rows and no group names,
\* computeCounterBreakdown and computeRateDistribution return no rows and
\* getMetricValue returns 0.
C24_AbsentMetricIsEmpty ==
    metricsHistory # <<>> =>
       \A name \in ProbeNames : \A groupBy \in GroupBys :
          /\ ~hasMetric(LastMetrics, name \o <<"_","b","u","c","k","e","t">>) =>
                /\ computeHistogramData(LastMetrics, name, groupBy) = [data |-> <<>>, keys |-> <<>>]
                /\ computeRateDistribution(<<LastMetrics>>, <<LastMetrics>>, name \o <<"_","b","u","c","k","e","t">>,
                                           WriteFilter, [n |-> 1, d |-> 1]) = <<>>
          /\ ~hasMetric(LastMetrics, name) =>
                /\ computeSummaryData(LastMetrics, name) = [data |-> <<>>, keys |-> <<>>]
                /\ computeCounterBreakdown(LastMetrics, name, groupBy) = <<>>
                /\ getMetricValue(LastMetrics, name, <<>>) = [n |-> 0, d |-> 1]
                /\ getMetricValue(LastMetrics, name, [k \in {<<"g">>} |-> <<"a">>]) = [n |-> 0, d |-> 1]

\* C24 witness: a snapshot with samples of the counter c, which has a
\* value and a breakdown, and without the histogram h and the summary s.
C24_Witness ==
    /\ metricsHistory # <<>>
    /\ ~hasMetric(LastMetrics, <<"h","_","b","u","c","k","e","t">>)
    /\ ~hasMetric(LastMetrics, <<"s">>)
    /\ getMetricValue(LastMetrics, <<"c">>, [k \in {<<"g">>} |-> <<"a">>]) = [n |-> 3, d |-> 1]
    /\ getMetricValue(LastMetrics, <<"c">>, <<>>) = [n |-> 4, d |-> 1]
    /\ Len(computeCounterBreakdown(LastMetrics, <<"c">>, <<"g">>)) = 2
    /\ computeHistogramData(LastMetrics, <<"h">>, <<"g">>) = EmptyChart
    /\ getMetricValue(LastMetrics, <<"s">>, <<>>) = Zero


\* ---- the proxy handler
\* C25: under every order of the upstream response, the upstream error, the
\* timeout and the client's close, a request to /api/proxy gets at most one
\* response started; an error or timeout after that sends nothing, and an
\* upstream response after an error response is drained.
C25_AtMostOneResponse ==
    [][ /\ Len(proxy.responses) <= 1
        /\ Len(proxy'.responses) <= 1
        /\ (proxy.responses # <<>> /\ proxy'.stage # "none") =>
              proxy'.responses = proxy.responses
        /\ (proxy.responses # <<>> /\ proxy'.seen \ proxy.seen # {}
              /\ proxy'.seen \ proxy.seen \subseteq {"error", "timeout"}) =>
              proxy'.refused = proxy.refused + 1
        /\ (proxy.responses # <<>> /\ "response" \in proxy'.seen \ proxy.seen) =>
              proxy'.drained = proxy.drained + 1 ]_vars

\* C25 witness: the timeout answered 504, then the upstream error was
\* refused and the late upstream response drained.
C25_Witness ==
    /\ proxy.responses = <<504>>
    /\ proxy.refused = 1
    /\ proxy.drained = 1
    /\ proxy.seen = {"timeout", "error", "response", "close"}


\* ---- the error after exhaustion
\* C26: once a cycle has exhausted its retries and stopped polling, no step
\* of a poll cycle clears the error or appends a snapshot as long as polling
\* stays off (a manual parse leaves the cycles as they are).
C26_ErrorPersists ==
    [][ (error # NoError /\ ~polling /\ ~polling' /\ cycles' # cycles) =>
           (error' # NoError /\ metricsHistory' = metricsHistory) ]_vars


\* C27: after every append to the history, by a poll or by a manual parse, the
\* discovered histogram, summary and counter lists are the classification of
\* the newest snapshot, also when the names change and the three list lengths
\* stay the same.
C27_DiscoveredFollowsNewest ==
    metricsHistory # <<>> => discovered = discoverDistributions(LastMetrics)


\* The count the reconstruction reads for group gk in the row of boundary le:
\* groups[gKey][leStr], with leStr the boundary converted back to a string.
LookedUp(groups, gk, le) == objGet(objGet(groups, gk, <<>>), leString(le), Zero)

\* Every group's count read at every boundary is the sum of the group's
\* bucket samples whose le label is that number.
EverySampleCounted(groups, metrics, groupBy) ==
    \A gk \in AllGroups(metrics, groupBy) : \A le \in AllLes(metrics) :
        LookedUp(groups, gk, le) = CumulativeAt(metrics, groupBy, gk, le)

\* C28: in the histogram view of the newest snapshot and in the histogram
\* widget, for every grouping, the cumulative count read for a group in the
\* row of a boundary holds the value of every bucket sample of the group with
\* that boundary, whatever the spelling of its le label.
C28_EverySpellingCounted ==
    \A groupBy \in GroupBys :
        /\ metricsHistory # <<>> =>
              EverySampleCounted(
                  histogramGroups(getMetric(LastMetrics, <<"h","_","b","u","c","k","e","t">>), groupBy, NoBuckets).groups,
                  LastMetrics, groupBy)
        /\ hasMetric(explorer.metrics, <<"h","_","b","u","c","k","e","t">>) =>
              EverySampleCounted(
                  widgetGroups(getMetric(explorer.metrics, <<"h","_","b","u","c","k","e","t">>), groupBy, NoBuckets).groups,
                  explorer.metrics, groupBy)

\* The same on snapshots whose le labels are all spelled as the number prints.
EverySpellingCounted_Canonical ==
    \A groupBy \in GroupBys :
        (/\ metricsHistory # <<>>
         /\ \A j \in BucketSamples(LastMetrics) :
               LET l == getMetric(LastMetrics, <<"h","_","b","u","c","k","e","t">>)[j].labels[<<"l","e">>]
               IN leString(leNumber(l)) = l) =>
              EverySampleCounted(
                  histogramGroups(getMetric(LastMetrics, <<"h","_","b","u","c","k","e","t">>), groupBy, NoBuckets).groups,
                  LastMetrics, groupBy)


\* ---- the dashboard
\* The places of the scan of findPosition over the items that are free.
ScanHits(items) ==
    {pl \in (0..(maxYOf(items) + widgetH)) \X (0..(cols - widgetW)) :
        canPlace(pl[2], pl[1], widgetW, widgetH, getOccupiedCells(items))}

\* The cells of an item.
CellsOf(item) ==
    (item.x..(item.x + item.w - 1)) \X (item.y..(item.y + item.h - 1))

\* The step adds a widget.
IsAdd == \E metric \in DashMetrics : handleAddMetric(metric)

\* The item a step has appended to the layout of a breakpoint.
Added(bp) == layouts'[bp][Len(layouts'[bp])]

\* The lg part: the place is one of the scan, the 4x2 rectangle ends inside
\* the 12 columns and shares no cell with an item that was there.
AddFitsLg ==
    IsAdd =>
        /\ <<Added("lg").y, Added("lg").x>> \in ScanHits(layouts.lg)
        /\ Added("lg").w = 4 /\ Added("lg").h = 2
        /\ Added("lg").x + Added("lg").w <= 12
        /\ \A j \in 1..Len(layouts.lg) : CellsOf(Added("lg")) \cap CellsOf(layouts.lg[j]) = {}

\* C29: every handleAddMetric finds its place inside the scan; the lg item
\* is a 4x2 rectangle with x + w <= 12 that shares no cell with an existing lg
\* item, the md item has x + w <= 8 and the sm item x + w <= 4.
C29_AddedItemFits ==
    [][ /\ AddFitsLg
        /\ IsAdd => /\ Added("md").x + Added("md").w <= 8
                    /\ Added("sm").x + Added("sm").w <= 4 ]_vars

\* The lg and sm parts alone.
AddedItemFits_LgSm ==
    [][ /\ AddFitsLg
        /\ IsAdd => Added("sm").x + Added("sm").w <= 4 ]_vars


Breakpoints == {"lg", "md", "sm"}

WidgetIds == {widgets[k].id : k \in 1..Len(widgets)}

\* No two widgets share an id.
IdsDistinct ==
    \A j \in 1..Len(widgets) : \A k \in 1..Len(widgets) :
        j # k => widgets[j].id # widgets[k].id

\* The item ids of every breakpoint's layout are the widget ids.
LayoutIdsAgree ==
    \A bp \in Breakpoints :
        {layouts[bp][j].i : j \in 1..Len(layouts[bp])} = WidgetIds

\* The sequence without its k-th element.
DropAt(q, k) == SubSeq(q, 1, k - 1) \o SubSeq(q, k + 1, Len(q))

\* Removing the k-th widget takes away that widget and the items added with
\* it, and nothing else.
RemovesOnlyThat ==
    \A k \in 1..Len(widgets) :
        handleRemoveWidget(widgets[k].id) =>
            /\ widgets' = DropAt(widgets, k)
            /\ \A bp \in Breakpoints : layouts'[bp] = DropAt(layouts[bp], k)

\* C30: from the empty dashboard, after any adds, removes and clears, the
\* widget ids are pairwise distinct and are the item ids of the lg, md and sm
\* layouts, and removing a widget removes that widget and its items only.
C30_WidgetIdsConsistent ==
    /\ [](IdsDistinct /\ LayoutIdsAgree)
    /\ [][RemovesOnlyThat]_vars

\* The same for widgets added at different clock readings.
WidgetIdsConsistent_ApartInTime ==
    /\ []LayoutIdsAgree
    /\ [][IdsDistinct => RemovesOnlyThat]_vars

====
